---- MODULE Spec2Model ----
(***************************************************************************)
(* The code-review engine (crengine) and its API: score.py                 *)
(* (_severity_weight, score_findings, score_findings_from_config,          *)
(* _estimate_hours), consolidate.py (to_phases, to_phases_from_config,     *)
(* generate_enhanced_recommendation), prompt_generation.py, main.py        *)
(* (run_full_pass), ai_apply.py (propose_patches) and api/main.py (the     *)
(* analysis job).                                                          *)
(*                                                                         *)
(* Numbers.  The program computes in floats.  The model computes the same  *)
(* expressions exactly, in fixed point: factors in [0,1] and weights are   *)
(* integers in hundredths (0.85 is 85), a product of two of them and every *)
(* unrounded score is in ten-thousandths (4.4 is 44000), and the fields of *)
(* a ScoredItem (rounded to 2 decimals by the code) are in hundredths      *)
(* (4.4 is 440, est_hours 0.5 is 50).  A float differs from the exact      *)
(* value by a rounding error far below one ten-thousandth, which decides   *)
(* an outcome only where the exact value lies on a threshold: a tie of     *)
(* round(x, 2), or avg_score equal to a tier bound of _estimate_hours.     *)
(* There the side the float fell on is an input of the operation: an error *)
(* sign -1 (below the exact value), 0 (exact) or 1 (above).                *)
(*                                                                         *)
(* Strings.  A string the program converts (upper(), lower(), split(),     *)
(* int()) is a sequence of one-character strings, so that the conversion   *)
(* is computed character by character.  Strings the program only compares  *)
(* (tool, phase names, dictionary keys) are TLA+ strings.                  *)
(***************************************************************************)
EXTENDS Integers, Sequences, FiniteSets, TLC

VARIABLES
    pc,             \* position of the run: which operation has been applied
    sev,            \* argument of _severity_weight
    weight,         \* result of _severity_weight (hundredths)
    findings,       \* argument `findings` of the scorers: a list of Finding
    scoring_config, \* argument `scoring_config` of score_findings_from_config
    out,            \* result list `out` of the scorers (or "ValueError")
    items,          \* argument `items` of the routers: a list of ScoredItem
    phase_config,   \* argument `phase_config` of to_phases_from_config
    phases,         \* result dict `phases` of the routers
    item,           \* argument `item` of generate_enhanced_recommendation
    recommendation, \* result of generate_enhanced_recommendation
    files,          \* the file system: the text of each path that can be read
    finding,        \* argument `finding` of generate_patch_prompt
    templates,      \* argument `templates` of generate_patch_prompt
    file_path,      \* argument `file_path` of extract_file_context
    line_num,       \* argument `line_num` of extract_file_context
    context_lines,  \* argument `context_lines` of both
    context,        \* result dict of extract_file_context
    selected,       \* result of select_template_for_finding
    loaded,         \* outcome of load_prompt_templates
    prompt,         \* result of generate_patch_prompt
    engine_config,  \* config/engine.yaml of the repository run_full_pass reviews
    ai_override,    \* argument `ai_override` of run_full_pass
    tools,          \* what run_flake8, run_bandit and run_semgrep do when called
    out_dir,        \* the output directory of run_full_pass: its files, once created
    executed,       \* the stages run_full_pass has run, each with its outcome
    scored,         \* local `scored` of run_full_pass: <<>> until assigned, then <<list>>
    provider,       \* argument `provider` of propose_patches
    prompts,        \* argument `prompts` of propose_patches
    attempt_number, \* the attempt of propose_patches the retry decorator is at
    outputs,        \* local `outputs` of the provider call of the attempt
    api_calls,      \* number of requests sent to a provider API so far
    exception,      \* the exception that ended the attempt
    patches,        \* outcome of propose_patches for its caller
    job,            \* the AnalysisJob row of the job, once created
    output_dir,     \* the files of /app/outputs/<job_id>
    responses       \* the answers get_analysis_result has given

scoring_vars   == <<sev, weight, findings, scoring_config, out>>
routing_vars   == <<items, phase_config, phases>>
recommend_vars == <<item, recommendation>>
prompt_vars    == <<files, finding, templates, file_path, line_num, context_lines,
                    context, selected, loaded, prompt>>

pipeline_vars  == <<engine_config, ai_override, tools, out_dir, executed, scored>>
patch_vars     == <<provider, prompts, attempt_number, outputs, api_calls, exception,
                    patches>>
job_vars       == <<job, output_dir, responses>>
engine_vars    == <<pipeline_vars, patch_vars, job_vars>>

vars == <<pc, scoring_vars, routing_vars, recommend_vars, prompt_vars, engine_vars>>

(***************************************************************************)
(* Bounds of the model.                                                    *)
(***************************************************************************)
MaxFindings == 2        \* longest list given to score_findings
MaxConfigFindings == 1  \* longest list given to score_findings_from_config
MaxItems == 2           \* longest list given to the routers
MaxPhases == 2          \* longest phase configuration

NoValue == "none"       \* a variable the specification at hand does not use

\* the variables of an operation the specification at hand does not apply
RecommendIdle == item = NoValue /\ recommendation = NoValue

PromptIdle ==
    /\ files = NoValue /\ finding = NoValue /\ templates = NoValue
    /\ file_path = NoValue /\ line_num = NoValue /\ context_lines = NoValue
    /\ context = NoValue /\ selected = NoValue /\ loaded = NoValue
    /\ prompt = NoValue

PipelineIdle ==
    /\ engine_config = NoValue /\ ai_override = NoValue /\ tools = NoValue
    /\ out_dir = NoValue /\ executed = NoValue /\ scored = NoValue

PatchIdle ==
    /\ provider = NoValue /\ prompts = NoValue /\ attempt_number = NoValue
    /\ outputs = NoValue /\ api_calls = NoValue /\ exception = NoValue
    /\ patches = NoValue

JobIdle == job = NoValue /\ output_dir = NoValue /\ responses = NoValue

EngineIdle == PipelineIdle /\ PatchIdle /\ JobIdle

(***************************************************************************)
(* Strings as character sequences; str.upper() and str.lower() on ASCII.   *)
(***************************************************************************)
Lowers == <<"a","b","c","d","e","f","g","h","i","j","k","l","m",
            "n","o","p","q","r","s","t","u","v","w","x","y","z">>
Uppers == <<"A","B","C","D","E","F","G","H","I","J","K","L","M",
            "N","O","P","Q","R","S","T","U","V","W","X","Y","Z">>

\* the upper-case letter of each lower-case letter, and the converse
UpperOf ==
    [c \in {Lowers[i] : i \in 1..Len(Lowers)} |->
        Uppers[CHOOSE i \in 1..Len(Lowers) : Lowers[i] = c]]

LowerOf ==
    [c \in {Uppers[i] : i \in 1..Len(Uppers)} |->
        Lowers[CHOOSE i \in 1..Len(Uppers) : Uppers[i] = c]]

UpperChar(c) == IF c \in DOMAIN UpperOf THEN UpperOf[c] ELSE c

LowerChar(c) == IF c \in DOMAIN LowerOf THEN LowerOf[c] ELSE c

upper(s) == [i \in 1..Len(s) |-> UpperChar(s[i])]
lower(s) == [i \in 1..Len(s) |-> LowerChar(s[i])]

\* every way of writing the letters of w in upper or lower case
CaseVariants(w) ==
    { [i \in 1..Len(w) |-> IF i \in S THEN LowerChar(w[i]) ELSE UpperChar(w[i])] :
        S \in SUBSET (1..Len(w)) }

\* `x in xs` for a Python list
In(x, xs) == \E i \in 1..Len(xs) : xs[i] = x

\* lists over S of length at most n
SeqUpTo(S, n) == UNION { [1..k -> S] : k \in 0..n }

(***************************************************************************)
(* score.py: _severity_weight                                              *)
(***************************************************************************)
CRITICAL == <<"C","R","I","T","I","C","A","L">>
HIGH     == <<"H","I","G","H">>
MEDIUM   == <<"M","E","D","I","U","M">>
LOW      == <<"L","O","W">>
INFO     == <<"I","N","F","O">>

\* the dict literal of _severity_weight, weights in hundredths
SeverityTable ==
    (CRITICAL :> 100) @@ (HIGH :> 85) @@ (MEDIUM :> 60) @@ (LOW :> 35) @@ (INFO :> 20)

EmptyDict == [k \in {} |-> 0]

\* dict.get(key, default)
Get(d, key, default) == IF key \in DOMAIN d THEN d[key] ELSE default

SeverityWeightNoUpper(s) == Get(SeverityTable, s, 20)

_severity_weight(s) == Get(SeverityTable, upper(s), 20)

(***************************************************************************)
(* model_schemas.py: Finding and ScoredItem, with the fields the scorers   *)
(* and the routers read.                                                   *)
(***************************************************************************)
Finding(tool, severity, tags) == [tool |-> tool, severity |-> severity, tags |-> tags]

ScoredItem(f, dr, vi, est) ==
    [finding |-> f, difficulty_risk |-> dr, value_importance |-> vi, est_hours |-> est]

security == <<"s","e","c","u","r","i","t","y">>
perf     == <<"p","e","r","f">>
style    == <<"s","t","y","l","e">>
tests    == <<"t","e","s","t","s">>
docs     == <<"d","o","c","s">>
typing   == <<"t","y","p","i","n","g">>
ux       == <<"u","x">>
api      == <<"a","p","i">>
i18n     == <<"i","1","8","n">>

(***************************************************************************)
(* round(x, 2): x the exact value in ten-thousandths of a float with error *)
(* sign e, result in hundredths.  Python rounds the float's own value, and *)
(* a float exactly on a tie to the even neighbour.                         *)
(***************************************************************************)
round2(x, e) ==
    LET q == x \div 100
        r == x % 100
    IN  IF r < 50 THEN q
        ELSE IF r > 50 THEN q + 1
        ELSE IF e < 0 THEN q
        ELSE IF e > 0 THEN q + 1
        ELSE IF q % 2 = 0 THEN q ELSE q + 1

(***************************************************************************)
(* score.py: score_findings (heuristic mode)                               *)
(***************************************************************************)
\* line 11: dr = 1.0 + 4.0 * sw * (1.0 if "security" in f.tags else 0.7)
HeuristicDifficultySecurityBoost(f) ==
    10000 + 4 * _severity_weight(f.severity) * (IF In(security, f.tags) THEN 130 ELSE 70)

\* line 11 with the tags compared in lower case
HeuristicDifficultyAnyCase(f) ==
    10000 + 4 * _severity_weight(f.severity)
              * (IF \E j \in 1..Len(f.tags) : lower(f.tags[j]) = security
                 THEN 100 ELSE 70)

HeuristicDifficulty(f) ==
    10000 + 4 * _severity_weight(f.severity) * (IF In(security, f.tags) THEN 100 ELSE 70)

\* line 12: vi = 1.0 + 4.0 * (sw if ("security" in f.tags or "perf" in f.tags) else 0.5)
HeuristicValueSecurityOnly(f) ==
    10000 + 4 * (IF In(security, f.tags) THEN _severity_weight(f.severity) ELSE 50) * 100

\* the value 5.0 for every finding
HeuristicValueFlat(f) == 10000 + 4 * 100 * 100

HeuristicValue(f) ==
    10000 + 4 * (IF In(security, f.tags) \/ In(perf, f.tags)
                 THEN _severity_weight(f.severity) ELSE 50) * 100

\* line 13: est = 0.5 if vi < 2 else 2 if dr < 2.5 else 6
HeuristicHoursDifficultyFirst(dr, vi) ==
    IF dr < 25000 THEN 200 ELSE IF vi < 20000 THEN 50 ELSE 600

HeuristicHours(dr, vi) ==
    IF vi < 20000 THEN 50 ELSE IF dr < 25000 THEN 200 ELSE 600

\* line 14: the ScoredItem appended for one finding.  dr and vi are whole
\* hundredths for every weight of SeverityTable and never 2 or 2.5, so the
\* float error decides nothing here
HeuristicItem(f) ==
    LET dr == HeuristicDifficulty(f)
        vi == HeuristicValue(f)
    IN  ScoredItem(f, round2(dr, 0), round2(vi, 0), HeuristicHours(dr, vi))

\* the loop building out by insertion at the front
RECURSIVE ScoreLoopReversed(_, _, _)
ScoreLoopReversed(fs, i, acc) ==
    IF i > Len(fs) THEN acc
    ELSE ScoreLoopReversed(fs, i + 1, <<HeuristicItem(fs[i])>> \o acc)

\* lines 8-15: the loop over findings, appending to out
RECURSIVE ScoreLoop(_, _, _)
ScoreLoop(fs, i, acc) ==
    IF i > Len(fs) THEN acc
    ELSE ScoreLoop(fs, i + 1, Append(acc, HeuristicItem(fs[i])))

score_findings(fs) == ScoreLoop(fs, 1, <<>>)

(***************************************************************************)
(* score.py: score_findings_from_config (config-driven mode)               *)
(***************************************************************************)
Digits == <<"0","1","2","3","4","5","6","7","8","9">>

IsDigit(c) == \E i \in 1..Len(Digits) : Digits[i] = c

DigitValue(c) == (CHOOSE i \in 1..Len(Digits) : Digits[i] = c) - 1

\* str.split(sep) for a one-character separator
RECURSIVE SplitFrom(_, _, _, _, _)
SplitFrom(s, sep, i, cur, parts) ==
    IF i > Len(s) THEN Append(parts, cur)
    ELSE IF s[i] = sep THEN SplitFrom(s, sep, i + 1, <<>>, Append(parts, cur))
    ELSE SplitFrom(s, sep, i + 1, Append(cur, s[i]), parts)

split(s, sep) == SplitFrom(s, sep, 1, <<>>, <<>>)

\* int(s) succeeds on a non-empty string of decimal digits
IsInt(s) == Len(s) > 0 /\ \A i \in 1..Len(s) : IsDigit(s[i])

RECURSIVE IntFrom(_, _, _)
IntFrom(s, i, acc) ==
    IF i > Len(s) THEN acc ELSE IntFrom(s, i + 1, 10 * acc + DigitValue(s[i]))

int(s) == IntFrom(s, 1, 0)

\* lines 33-38 and 40-45: the defaults used when a whole group is absent
DefaultDifficultyWeights ==
    [code_complexity |-> 25, coupling_blastradius |-> 25,
     test_coverage_gap |-> 25, tooling_fixability |-> 25]

DefaultValueWeights ==
    [security_severity |-> 25, reliability_perf |-> 25,
     developer_experience |-> 25, user_value |-> 25]

DefaultScale == <<"1","-","5">>

\* line 48: min_score, max_score = map(int, scale.split("-")) raises ValueError
\* unless the scale splits into exactly two integers
ScaleParses(scale) ==
    LET parts == split(scale, "-")
    IN  Len(parts) = 2 /\ IsInt(parts[1]) /\ IsInt(parts[2])

MinScore(scale) == int(split(scale, "-")[1])
MaxScore(scale) == int(split(scale, "-")[2])

\* lines 58-69: the weighted difficulty (ten-thousandths)
DifficultyRawSwappedWeights(f, dw) ==
    LET severity_factor      == _severity_weight(f.severity)
        code_complexity      == severity_factor
        coupling_blastradius == IF In(security, f.tags) THEN 100 ELSE 70
        test_coverage_gap    == IF In(tests, f.tags) THEN 80 ELSE 50
        tooling_fixability   == IF f.tool \in {"flake8", "pylint"} THEN 30 ELSE 70
    IN    Get(dw, "coupling_blastradius", 25) * code_complexity
        + Get(dw, "code_complexity", 25) * coupling_blastradius
        + Get(dw, "test_coverage_gap", 25) * test_coverage_gap
        + Get(dw, "tooling_fixability", 25) * tooling_fixability

\* lines 54-68: the four products weight * component, in the order summed
DifficultyTerms(f, dw) ==
    LET severity_factor      == _severity_weight(f.severity)
        code_complexity      == severity_factor
        coupling_blastradius == IF In(security, f.tags) THEN 100 ELSE 70
        test_coverage_gap    == IF In(tests, f.tags) THEN 80 ELSE 50
        tooling_fixability   == IF f.tool \in {"flake8", "pylint"} THEN 30 ELSE 70
    IN  << Get(dw, "code_complexity", 25) * code_complexity,
           Get(dw, "coupling_blastradius", 25) * coupling_blastradius,
           Get(dw, "test_coverage_gap", 25) * test_coverage_gap,
           Get(dw, "tooling_fixability", 25) * tooling_fixability >>

DifficultyRaw(f, dw) ==
    LET t == DifficultyTerms(f, dw) IN t[1] + t[2] + t[3] + t[4]

\* the weighted value with the severity of a security finding counted
\* downwards
ValueTermsInvertedSeverity(f, vw) ==
    LET severity_factor      == _severity_weight(f.severity)
        security_severity    == IF In(security, f.tags) THEN 100 - severity_factor ELSE 20
        reliability_perf     == IF In(perf, f.tags) THEN severity_factor ELSE 30
        developer_experience ==
            IF \E tag \in {tests, docs, typing} : In(tag, f.tags) THEN 60 ELSE 30
        user_value           ==
            IF \E tag \in {ux, api, i18n} : In(tag, f.tags) THEN 70 ELSE 20
    IN  << Get(vw, "security_severity", 25) * security_severity,
           Get(vw, "reliability_perf", 25) * reliability_perf,
           Get(vw, "developer_experience", 25) * developer_experience,
           Get(vw, "user_value", 25) * user_value >>

\* lines 71-83: the four products weight * component, in the order summed
ValueTerms(f, vw) ==
    LET severity_factor      == _severity_weight(f.severity)
        security_severity    == IF In(security, f.tags) THEN severity_factor ELSE 20
        reliability_perf     == IF In(perf, f.tags) THEN severity_factor ELSE 30
        developer_experience ==
            IF \E tag \in {tests, docs, typing} : In(tag, f.tags) THEN 60 ELSE 30
        user_value           ==
            IF \E tag \in {ux, api, i18n} : In(tag, f.tags) THEN 70 ELSE 20
    IN  << Get(vw, "security_severity", 25) * security_severity,
           Get(vw, "reliability_perf", 25) * reliability_perf,
           Get(vw, "developer_experience", 25) * developer_experience,
           Get(vw, "user_value", 25) * user_value >>

\* lines 77-83: the weighted value (ten-thousandths)
ValueRaw(f, vw) ==
    LET t == ValueTerms(f, vw) IN t[1] + t[2] + t[3] + t[4]

\* lines 86-87: min_score + raw * score_range (ten-thousandths)
Rescale(raw, min_score, max_score) == min_score * 10000 + raw * (max_score - min_score)

\* line 104: avg_score = (difficulty + value) / 2, and avg_score < t for a
\* tier bound t (ten-thousandths), e the error sign of the float avg_score
AvgBelow(difficulty, value, e, t) ==
    \/ difficulty + value < 2 * t
    \/ difficulty + value = 2 * t /\ e < 0

\* lines 102-113: _estimate_hours
EstimateHoursThreeTiers(difficulty, value, e) ==
    IF AvgBelow(difficulty, value, e, 20000) THEN 50
    ELSE IF AvgBelow(difficulty, value, e, 30000) THEN 200
    ELSE 600

_estimate_hours(difficulty, value, e) ==
    IF AvgBelow(difficulty, value, e, 20000) THEN 50
    ELSE IF AvgBelow(difficulty, value, e, 30000) THEN 200
    ELSE IF AvgBelow(difficulty, value, e, 40000) THEN 600
    ELSE 1200

\* lines 53-97: the ScoredItem appended for one finding; err holds the error
\* signs of the floats difficulty_risk, value_importance and avg_score
ConfigItem(f, dw, vw, min_score, max_score, err) ==
    LET difficulty_risk  == Rescale(DifficultyRaw(f, dw), min_score, max_score)
        value_importance == Rescale(ValueRaw(f, vw), min_score, max_score)
    IN  ScoredItem(f, round2(difficulty_risk, err.difficulty),
                   round2(value_importance, err.value),
                   _estimate_hours(difficulty_risk, value_importance, err.avg))

\* fp maps each finding to the error signs of its float computation: the
\* same finding under the same configuration computes the same floats
RECURSIVE ConfigScoreLoop(_, _, _, _, _, _, _, _)
ConfigScoreLoop(fs, dw, vw, min_score, max_score, fp, i, acc) ==
    IF i > Len(fs) THEN acc
    ELSE ConfigScoreLoop(fs, dw, vw, min_score, max_score, fp, i + 1,
            Append(acc, ConfigItem(fs[i], dw, vw, min_score, max_score, fp[fs[i]])))

\* the result list, or "ValueError" when line 48 raises
score_findings_from_config(fs, cfg, fp) ==
    LET difficulty_weights == Get(cfg, "difficulty_weights", DefaultDifficultyWeights)
        value_weights      == Get(cfg, "value_weights", DefaultValueWeights)
        scale              == Get(cfg, "scale", DefaultScale)
    IN  IF ~ScaleParses(scale) THEN "ValueError"
        ELSE ConfigScoreLoop(fs, difficulty_weights, value_weights,
                             MinScore(scale), MaxScore(scale), fp, 1, <<>>)

\* the error signs that can decide an outcome for finding f: a sign other
\* than 0 only where the exact value is a tie of round or a tier bound
FloatErrors(f, cfg) ==
    LET scale == Get(cfg, "scale", DefaultScale)
        dw    == Get(cfg, "difficulty_weights", DefaultDifficultyWeights)
        vw    == Get(cfg, "value_weights", DefaultValueWeights)
        d     == Rescale(DifficultyRaw(f, dw), MinScore(scale), MaxScore(scale))
        v     == Rescale(ValueRaw(f, vw), MinScore(scale), MaxScore(scale))
    IN  IF ~ScaleParses(scale)
        THEN { [difficulty |-> 0, value |-> 0, avg |-> 0] }
        ELSE { [difficulty |-> ed, value |-> ev, avg |-> ea] :
                 ed \in IF d % 100 = 50 THEN {-1, 0, 1} ELSE {0},
                 ev \in IF v % 100 = 50 THEN {-1, 0, 1} ELSE {0},
                 ea \in IF d + v \in {40000, 60000, 80000} THEN {-1, 0} ELSE {0} }

Range(xs) == { xs[i] : i \in 1..Len(xs) }

\* the functions from the findings in S to their possible error signs
RECURSIVE AllErrorMaps(_, _)
AllErrorMaps(S, cfg) ==
    IF S = {} THEN { EmptyDict }
    ELSE LET f == CHOOSE x \in S : TRUE
         IN  { (f :> e) @@ g : e \in FloatErrors(f, cfg), g \in AllErrorMaps(S \ {f}, cfg) }

\* two findings whose products weight * component are equal one by one
\* compute the same floats from there on
SameTerms(f1, f2, cfg) ==
    /\ DifficultyTerms(f1, Get(cfg, "difficulty_weights", DefaultDifficultyWeights))
         = DifficultyTerms(f2, Get(cfg, "difficulty_weights", DefaultDifficultyWeights))
    /\ ValueTerms(f1, Get(cfg, "value_weights", DefaultValueWeights))
         = ValueTerms(f2, Get(cfg, "value_weights", DefaultValueWeights))

\* the error maps of a deterministic float unit: findings that compute the
\* same floats have the same error signs
FloatErrorMaps(S, cfg) ==
    LET all == AllErrorMaps(S, cfg)
    IN  IF Cardinality(all) = 1 THEN all
        ELSE { g \in all :
                 \A f1 \in S : \A f2 \in S : SameTerms(f1, f2, cfg) => g[f1] = g[f2] }

(***************************************************************************)
(* consolidate.py: to_phases (fixed rules).  The phase names are written   *)
(* with "-" for the en dash of the source.                                 *)
(***************************************************************************)
Phase0 == "Phase 0 - Repo Hygiene"
Phase1 == "Phase 1 - Security & Safety"
Phase2 == "Phase 2 - Reliability & Performance"
Phase3 == "Phase 3 - Developer Experience"
Phase4 == "Phase 4 - Product Polish"

Uncategorized == "Uncategorized"

\* the item inserted at the front of the list
PrependTo(ph, name, it) == [ph EXCEPT ![name] = <<it>> \o @]

\* phases[name].append(it)
AppendTo(ph, name, it) == [ph EXCEPT ![name] = Append(@, it)]

\* lines 15-22: the phase one item is appended to
FixedPhaseStyleFirst(it) ==
    IF In(style, it.finding.tags) THEN Phase0
    ELSE IF In(security, it.finding.tags) THEN Phase1
    ELSE IF In(perf, it.finding.tags) THEN Phase2
    ELSE Phase3

FixedPhase(it) ==
    IF In(security, it.finding.tags) THEN Phase1
    ELSE IF In(perf, it.finding.tags) THEN Phase2
    ELSE IF In(style, it.finding.tags) THEN Phase0
    ELSE Phase3

\* lines 14-22: the loop over items
RECURSIVE FixedLoop(_, _, _)
FixedLoop(its, i, ph) ==
    IF i > Len(its) THEN ph
    ELSE FixedLoop(its, i + 1, AppendTo(ph, FixedPhase(its[i]), its[i]))

\* lines 7-13 and 23
to_phases(its) ==
    FixedLoop(its, 1, [name \in {Phase0, Phase1, Phase2, Phase3, Phase4} |-> <<>>])

(***************************************************************************)
(* consolidate.py: to_phases_from_config                                   *)
(***************************************************************************)
\* lines 42-48: one empty list per configured name, then "Uncategorized"
\* a key only for the phases that can receive an item
InitialPhasesSkipEmpty(cfg) ==
    [name \in {cfg[k].name : k \in {j \in 1..Len(cfg) : Len(cfg[j].include_tags) > 0}}
                \cup {Uncategorized} |-> <<>>]

InitialPhases(cfg) ==
    [name \in {cfg[k].name : k \in 1..Len(cfg)} \cup {Uncategorized} |-> <<>>]

\* lines 51-57: the configuration with its include_tags lower-cased
NormalizedConfigNoLower(cfg) == cfg

NormalizedConfig(cfg) ==
    [k \in 1..Len(cfg) |->
        [name |-> cfg[k].name,
         include_tags |-> [j \in 1..Len(cfg[k].include_tags) |->
                              lower(cfg[k].include_tags[j])]]]

\* the tags of the item as written
ItemTagsNoLower(it) == it.finding.tags

\* line 61: item_tags = [tag.lower() for tag in item.finding.tags]
ItemTags(it) == [j \in 1..Len(it.finding.tags) |-> lower(it.finding.tags[j])]

\* every tag of the item required to be a tag of the phase
AllTagsIn(item_tags, phase_tags) ==
    \A j \in 1..Len(item_tags) : In(item_tags[j], phase_tags)

\* line 69: any(tag in phase_tags for tag in item_tags)
AnyTagIn(item_tags, phase_tags) ==
    \E j \in 1..Len(item_tags) : In(item_tags[j], phase_tags)

\* lines 62-76: the phases after one item is routed; the inner loop runs over
\* the normalized configuration from index k and stops at the first match
RECURSIVE RouteItemAllMatches(_, _, _, _, _)
RouteItemAllMatches(it, ncfg, k, matched, ph) ==
    IF k > Len(ncfg)
    THEN IF matched THEN ph ELSE AppendTo(ph, Uncategorized, it)
    ELSE IF AnyTagIn(ItemTags(it), ncfg[k].include_tags)
         THEN RouteItemAllMatches(it, ncfg, k + 1, TRUE, AppendTo(ph, ncfg[k].name, it))
         ELSE RouteItemAllMatches(it, ncfg, k + 1, matched, ph)

RECURSIVE RouteItem(_, _, _, _, _)
RouteItem(it, ncfg, k, matched, ph) ==
    IF k > Len(ncfg)
    THEN IF matched THEN ph ELSE AppendTo(ph, Uncategorized, it)
    ELSE IF AnyTagIn(ItemTags(it), ncfg[k].include_tags)
         THEN AppendTo(ph, ncfg[k].name, it)
         ELSE RouteItem(it, ncfg, k + 1, matched, ph)

\* lines 60-76: the loop over items
RECURSIVE ConfigLoop(_, _, _, _)
ConfigLoop(its, ncfg, i, ph) ==
    IF i > Len(its) THEN ph
    ELSE ConfigLoop(its, ncfg, i + 1, RouteItem(its[i], ncfg, 1, FALSE, ph))

to_phases_from_config(its, cfg) ==
    ConfigLoop(its, NormalizedConfig(cfg), 1, InitialPhases(cfg))

(***************************************************************************)
(* consolidate.py: generate_enhanced_recommendation.  The recommendation   *)
(* is a text assembled from sections; it is modelled as the sequence of    *)
(* its sections, each with the part of its text that depends on the item.  *)
(* The scores shown with one decimal in the header and in the trade-off    *)
(* text are not part of the model.                                         *)
(***************************************************************************)
None == "None"

Section(title, body) == [section |-> title, body |-> body]

\* str.endswith
endswith(s, suffix) ==
    /\ Len(s) >= Len(suffix)
    /\ SubSeq(s, Len(s) - Len(suffix) + 1, Len(s)) = suffix

DotPy == <<".", "p", "y">>

\* lines 127-150: which of the five rationale texts is returned
_generate_rationale(it) ==
    IF In(security, it.finding.tags) THEN "security"
    ELSE IF In(perf, it.finding.tags) THEN "perf"
    ELSE IF In(tests, it.finding.tags) THEN "tests"
    ELSE IF In(style, it.finding.tags) THEN "style"
    ELSE "generic"

\* the matrix with exclusive thresholds
TradeoffsExclusive(it) ==
    LET value      == it.value_importance
        difficulty == it.difficulty_risk
    IN  IF value > 400 /\ difficulty < 200 THEN "Quick Win"
        ELSE IF value > 400 /\ difficulty > 400 THEN "Major Project"
        ELSE IF value < 200 /\ difficulty < 200 THEN "Nice to Have"
        ELSE IF value < 200 /\ difficulty > 400 THEN "Low Priority"
        ELSE "Balanced Trade-off"

\* lines 153-175: which of the five trade-off texts is returned (scores in
\* hundredths: 4.0 is 400, 2.0 is 200)
_generate_tradeoffs(it) ==
    LET value      == it.value_importance
        difficulty == it.difficulty_risk
    IN  IF value >= 400 /\ difficulty <= 200 THEN "Quick Win"
        ELSE IF value >= 400 /\ difficulty >= 400 THEN "Major Project"
        ELSE IF value <= 200 /\ difficulty <= 200 THEN "Nice to Have"
        ELSE IF value <= 200 /\ difficulty >= 400 THEN "Low Priority"
        ELSE "Balanced Trade-off"

\* [r for r in refs if r]
RECURSIVE FilterNone(_)
FilterNone(refs) ==
    IF refs = <<>> THEN <<>>
    ELSE IF Head(refs) = None THEN FilterNone(Tail(refs))
    ELSE <<Head(refs)>> \o FilterNone(Tail(refs))

\* the references with PEP 8 for every finding tagged style
ReferencesStyleAnyFile(it) ==
    LET f    == it.finding
        refs == (IF In(security, f.tags) THEN <<"OWASP Top 10", "CWE Top 25">> ELSE <<>>)
                \o (IF In(perf, f.tags) THEN <<"Google Web Vitals">> ELSE <<>>)
                \o (IF In(tests, f.tags)
                    THEN <<"Google Testing Blog", "Test Pyramid">> ELSE <<>>)
                \o (IF In(style, f.tags) THEN <<"PEP 8">> ELSE <<>>)
    IN  IF refs # <<>> THEN refs ELSE None

\* lines 178-200: the lines of the references text, or None
_generate_references(it) ==
    LET f    == it.finding
        refs == (IF In(security, f.tags) THEN <<"OWASP Top 10", "CWE Top 25">> ELSE <<>>)
                \o (IF In(perf, f.tags) THEN <<"Google Web Vitals">> ELSE <<>>)
                \o (IF In(tests, f.tags)
                    THEN <<"Google Testing Blog", "Test Pyramid">> ELSE <<>>)
                \o (IF In(style, f.tags)
                    THEN <<IF endswith(f.file, DotPy) THEN "PEP 8" ELSE None>>
                    ELSE <<>>)
        kept == FilterNone(refs)
    IN  IF kept # <<>> THEN kept ELSE None

\* lines 203-229: which of the four step lists is returned
_generate_actionable_steps(it) ==
    IF it.finding.tool = "flake8" THEN "flake8"
    ELSE IF it.finding.tool = "bandit" THEN "bandit"
    ELSE IF it.finding.tool = "semgrep" THEN "semgrep"
    ELSE "generic"

\* finding.line or 'N/A'; an Optional[int] is <<>> for None and <<n>> for n
LineOrNA(line) == IF line = <<>> \/ line = <<0>> THEN "N/A" ELSE line[1]

\* lines 91-124
generate_enhanced_recommendation(it) ==
    LET f          == it.finding
        header     == Section("header", [file |-> f.file, line |-> LineOrNA(f.line)])
        summary    == Section("Issue",
                        [tool |-> f.tool, severity |-> f.severity,
                         tags |-> IF f.tags # <<>> THEN f.tags ELSE "none"])
        rationale  == _generate_rationale(it)
        tradeoffs  == _generate_tradeoffs(it)
        references == _generate_references(it)
        steps      == _generate_actionable_steps(it)
    IN  <<header, summary>>
        \o <<Section("Rationale", rationale)>>
        \o <<Section("Trade-offs", tradeoffs)>>
        \o (IF references # None THEN <<Section("References", references)>> ELSE <<>>)
        \o <<Section("Actionable Steps", steps)>>
        \o <<Section("Estimated Effort", it.est_hours)>>
        \o <<Section("separator", "---")>>

(***************************************************************************)
(* prompt_generation.py: extract_file_context.  The file system maps each  *)
(* path that exists to its content: TextFile(t) for a file that reads as   *)
(* the text t (a sequence of characters), or Unreadable for a path whose   *)
(* open() or read fails with another error than FileNotFoundError.  A path *)
(* outside the domain does not exist.                                      *)
(***************************************************************************)
TextFile(t) == [kind |-> "text", text |-> t]
Unreadable  == [kind |-> "unreadable"]
NewLine    == "\n"

Max(a, b) == IF a >= b THEN a ELSE b
Min(a, b) == IF a <= b THEN a ELSE b

\* f.readlines(): the text cut after every newline, the newline kept
RECURSIVE ReadLinesFrom(_, _, _, _)
ReadLinesFrom(text, i, cur, acc) ==
    IF i > Len(text) THEN (IF cur = <<>> THEN acc ELSE Append(acc, cur))
    ELSE IF text[i] = NewLine
         THEN ReadLinesFrom(text, i + 1, <<>>, Append(acc, Append(cur, text[i])))
         ELSE ReadLinesFrom(text, i + 1, Append(cur, text[i]), acc)

readlines(text) == ReadLinesFrom(text, 1, <<>>, <<>>)

\* s.rstrip(ch)
RECURSIVE rstrip(_, _)
rstrip(s, ch) ==
    IF s # <<>> /\ s[Len(s)] = ch THEN rstrip(SubSeq(s, 1, Len(s) - 1), ch) ELSE s

\* xs[a:b] with 0-based bounds, negative bounds counted from the end
SliceIndex(n, a) == IF a < 0 THEN Max(a + n, 0) ELSE Min(a, n)

Slice(xs, a, b) == SubSeq(xs, SliceIndex(Len(xs), a) + 1, SliceIndex(Len(xs), b))

Strip(ls) == [k \in 1..Len(ls) |-> rstrip(ls[k], NewLine)]

\* lines 60-84: the dict returned without context
NoContext(message) ==
    [target_line |-> <<>>, before |-> <<>>, after |-> <<>>, full_context |-> message]

\* lines 98-103: the numbered lines of the window, the target marked
NumberedLines(lines, start_idx, end_idx, target_idx) ==
    [k \in 1..Max(end_idx - start_idx, 0) |->
        [number  |-> start_idx + k,
         marker  |-> (start_idx + k - 1 = target_idx),
         content |-> rstrip(lines[start_idx + k], NewLine)]]

\* the window with the after-context one line short
ContextWindowShort(lines, line, ctx, include_linebers) ==
    LET target_idx == line - 1
        start_idx  == Max(0, target_idx - ctx)
        end_idx    == Min(Len(lines), target_idx + ctx)
    IN  [target_line  |-> rstrip(lines[target_idx + 1], NewLine),
         before       |-> Strip(Slice(lines, start_idx, target_idx)),
         after        |-> Strip(Slice(lines, target_idx + 1, end_idx)),
         full_context |->
            IF include_linebers
            THEN NumberedLines(lines, start_idx, end_idx, target_idx)
            ELSE Slice(lines, start_idx, end_idx)]

\* lines 86-112: the dict returned for a target line inside the file
ContextWindow(lines, line, ctx, include_linebers) ==
    LET target_idx == line - 1
        start_idx  == Max(0, target_idx - ctx)
        end_idx    == Min(Len(lines), target_idx + ctx + 1)
    IN  [target_line  |-> rstrip(lines[target_idx + 1], NewLine),
         before       |-> Strip(Slice(lines, start_idx, target_idx)),
         after        |-> Strip(Slice(lines, target_idx + 1, end_idx)),
         full_context |->
            IF include_linebers
            THEN NumberedLines(lines, start_idx, end_idx, target_idx)
            ELSE Slice(lines, start_idx, end_idx)]

\* the range test without the lower bound
OutOfRangeAbove(lines, line) == line - 1 >= Len(lines)

\* line 78
OutOfRange(lines, line) == line - 1 < 0 \/ line - 1 >= Len(lines)

\* lines 35-112
extract_file_context(fs, path, line, ctx, include_line_numbers) ==
    IF path \notin DOMAIN fs
    THEN NoContext([error |-> "File not found", path |-> path])
    ELSE IF fs[path] = Unreadable
    THEN NoContext([error |-> "Error reading file", path |-> path])
    ELSE LET lines == readlines(fs[path].text)
         IN  IF OutOfRange(lines, line)
             THEN NoContext([error |-> "out of range", line |-> line,
                             count |-> Len(lines)])
             ELSE ContextWindow(lines, line, ctx, include_line_numbers)

(***************************************************************************)
(* prompt_generation.py: load_prompt_templates, select_template_for_finding*)
(* and generate_patch_prompt.  A template is the sequence of the           *)
(* placeholder names it references; str.format fills each from the keyword *)
(* arguments and raises KeyError for a name that is not among them.  The   *)
(* templates file is a path of the file system whose content is           *)
(* YamlFile(d) when it parses to the dict d, and Malformed when            *)
(* yaml.safe_load rejects it.  An optional argument is <<>> for None and   *)
(* <<x>> for the value x.  A call gives Return(v) when it returns v and    *)
(* Raise(e) when the exception e leaves it.                                *)
(***************************************************************************)
YamlFile(d) == [kind |-> "yaml", value |-> d]
Malformed   == [kind |-> "malformed"]

Return(v) == [returned |-> v]
Raise(e)  == [raised |-> e]
Raises(r) == "raised" \in DOMAIN r

TemplatesPath == <<"c", "o", "n", "f", "i", "g">>

\* lines 28-32: the defaults returned when the file is not found
DefaultTemplates ==
    [system_prompt  |-> "You are an expert code reviewer.",
     patch_template |-> <<"message", "file", "line">>,
     context_lines  |-> 5]

\* lines 18-32 for config_path = None
load_prompt_templates(fs) ==
    IF TemplatesPath \notin DOMAIN fs THEN Return(DefaultTemplates)
    ELSE IF fs[TemplatesPath] = Unreadable THEN Raise("OSError")
    ELSE IF fs[TemplatesPath] = Malformed THEN Raise("YAMLError")
    ELSE Return(fs[TemplatesPath].value)

secrets     == <<"s", "e", "c", "r", "e", "t", "s">>
sast        == <<"s", "a", "s", "t">>
performance == <<"p", "e", "r", "f", "o", "r", "m", "a", "n", "c", "e">>

\* the performance template tried before the security template
SelectPerformanceFirst(f, tmpl) ==
    LET tgs == [j \in 1..Len(f.tags) |-> lower(f.tags[j])]
    IN  IF (In(perf, tgs) \/ In(performance, tgs))
           /\ "performance_patch_template" \in DOMAIN tmpl
        THEN tmpl["performance_patch_template"]
        ELSE IF (In(security, tgs) \/ In(secrets, tgs) \/ In(sast, tgs))
                /\ "security_patch_template" \in DOMAIN tmpl
        THEN tmpl["security_patch_template"]
        ELSE Get(tmpl, "patch_template", <<"message">>)

\* lines 126-139
select_template_for_finding(f, tmpl) ==
    LET tgs == [j \in 1..Len(f.tags) |-> lower(f.tags[j])]
    IN  IF (In(security, tgs) \/ In(secrets, tgs) \/ In(sast, tgs))
           /\ "security_patch_template" \in DOMAIN tmpl
        THEN tmpl["security_patch_template"]
        ELSE IF (In(perf, tgs) \/ In(performance, tgs))
                /\ "performance_patch_template" \in DOMAIN tmpl
        THEN tmpl["performance_patch_template"]
        ELSE Get(tmpl, "patch_template", <<"message">>)

\* lines 178-186: the keyword arguments of template.format
FormatArguments(f, ctx) ==
    [file           |-> f.file,
     line           |-> LineOrNA(f.line),
     tool           |-> f.tool,
     rule_id        |-> f.rule_id,
     message        |-> f.message,
     severity       |-> f.severity,
     context_before |-> ctx.before,
     context_after  |-> ctx.after,
     full_context   |-> ctx.full_context]

\* a format that leaves an unknown placeholder out instead of raising
FormatSkipsUnknown(template, args) ==
    LET known == SelectSeq(template, LAMBDA name : name \in DOMAIN args)
    IN  Return([k \in 1..Len(known) |->
                    [field |-> known[k], value |-> args[known[k]]]])

\* template.format(**args): the values filled in, in the order referenced
format(template, args) ==
    IF \E k \in 1..Len(template) : template[k] \notin DOMAIN args
    THEN Raise("KeyError")
    ELSE Return([k \in 1..Len(template) |->
                    [field |-> template[k], value |-> args[template[k]]]])

\* line 165: finding.line if finding.line else 1
LineOrFirst(line) == IF line = <<>> \/ line = <<0>> THEN 1 ELSE line[1]

\* lines 160-161: the templates in use, or the exception of the load
TemplatesInUse(fs, tmpl) ==
    IF tmpl = <<>> THEN load_prompt_templates(fs) ELSE Return(tmpl[1])

\* lines 168-169: the context_lines in use
ContextLinesInUse(ctx_lines, tmpl) ==
    IF ctx_lines = <<>> THEN Get(tmpl, "context_lines", 5) ELSE ctx_lines[1]

\* the prompt without a file context when the file is not there
PatchPromptNeedsFile(fs, f, ctx_lines, include_system_prompt, tmpl) ==
    LET tm == TemplatesInUse(fs, tmpl)
    IN  IF Raises(tm) THEN tm
        ELSE IF f.file \notin DOMAIN fs THEN Raise("FileNotFoundError")
        ELSE LET ctx  == extract_file_context(fs, f.file, LineOrFirst(f.line),
                             ContextLinesInUse(ctx_lines, tm.returned), TRUE)
                 body == format(select_template_for_finding(f, tm.returned),
                                FormatArguments(f, ctx))
             IN  IF Raises(body) THEN body
                 ELSE Return([system |-> IF include_system_prompt
                                            /\ "system_prompt" \in DOMAIN tm.returned
                                         THEN <<tm.returned["system_prompt"]>> ELSE <<>>,
                              body   |-> body.returned])

\* lines 160-194: Return of the prompt, its system part and its body, or
\* Raise of the exception of the templates load or of the format
generate_patch_prompt(fs, f, ctx_lines, include_system_prompt, tmpl) ==
    LET tm == TemplatesInUse(fs, tmpl)
    IN  IF Raises(tm) THEN tm
        ELSE LET ctx  == extract_file_context(fs, f.file, LineOrFirst(f.line),
                             ContextLinesInUse(ctx_lines, tm.returned), TRUE)
                 body == format(select_template_for_finding(f, tm.returned),
                                FormatArguments(f, ctx))
             IN  IF Raises(body) THEN body
                 ELSE Return([system |-> IF include_system_prompt
                                            /\ "system_prompt" \in DOMAIN tm.returned
                                         THEN <<tm.returned["system_prompt"]>> ELSE <<>>,
                              body   |-> body.returned])

(***************************************************************************)
(* Inputs.  Severity labels, findings, scoring configurations, items and   *)
(* phase configurations the operations are applied to.                     *)
(***************************************************************************)
\* a dict with the one entry key: x when opt = {x}, the empty dict when opt = {}
Field(key, opt) == IF opt = {} THEN EmptyDict ELSE (key :> (CHOOSE x \in opt : TRUE))

WARNING == <<"W","A","R","N","I","N","G">>

SeverityLabels ==
    CaseVariants(CRITICAL) \cup CaseVariants(HIGH) \cup CaseVariants(MEDIUM)
    \cup CaseVariants(LOW) \cup CaseVariants(INFO)
    \cup { <<>>, WARNING, lower(WARNING), <<"E","R","R","O","R">>, <<"H","I","G">>,
           <<"H","I","G","H","E","R">>, <<"I","N","F","O"," ">>, <<"L","0","W">> }

HeuristicSeverities == { CRITICAL, HIGH, MEDIUM, LOW, INFO, lower(HIGH), <<>> }

HeuristicTagLists ==
    { <<>>, <<security>>, <<perf>>, <<style>>, <<security, perf>>, <<upper(security)>> }

HeuristicFindings ==
    { Finding("bandit", s, t) : s \in HeuristicSeverities, t \in HeuristicTagLists }

ConfigFindings ==
    { Finding("bandit", s, t) :
        s \in { CRITICAL, HIGH, MEDIUM, LOW, INFO, WARNING },
        t \in { <<>>, <<security>>, <<security, perf>> } }
    \cup
    { Finding("semgrep", HIGH, t) :
        t \in { <<tests>>, <<docs>>, <<typing>>, <<ux>>, <<api>>, <<i18n>>,
                <<style>>, <<tests, ux, security>> } }
    \cup
    { Finding("semgrep", lower(MEDIUM), t) : t \in { <<perf>>, <<tests>> } }
    \cup
    { Finding("flake8", s, t) :
        s \in { CRITICAL, INFO },
        t \in { <<>>, <<security>>, <<tests>>, <<style, perf>> } }
    \cup
    { Finding("pylint", CRITICAL, t) : t \in { <<>>, <<security>> } }

DW(a, b, c, d) ==
    [code_complexity |-> a, coupling_blastradius |-> b,
     test_coverage_gap |-> c, tooling_fixability |-> d]

VW(a, b, c, d) ==
    [security_severity |-> a, reliability_perf |-> b,
     developer_experience |-> c, user_value |-> d]

DifficultyWeightChoices ==
    { DW(25, 25, 25, 25), DW(50, 30, 10, 5), DW(100, 100, 100, 100), DW(0, 0, 0, 0),
      EmptyDict, "code_complexity" :> 40,
      ("coupling_blastradius" :> 50) @@ ("tooling_fixability" :> 10) }

ValueWeightChoices ==
    { VW(50, 30, 10, 10), VW(40, 30, 20, 10), VW(70, 15, 10, 5), VW(100, 100, 100, 100),
      EmptyDict, "security_severity" :> 60,
      ("reliability_perf" :> 15) @@ ("developer_experience" :> 10) @@ ("user_value" :> 5) }

ScaleChoices == { <<"1","-","5">>, <<"0","-","1","0">>, <<"5","-","1">> }

BadScaleChoices == { <<"5">>, <<"1","-","x">>, <<"-","1","-","5">> }

WeightConfigs ==
    { Field("difficulty_weights", d) @@ Field("value_weights", v) :
        d \in { {} } \cup { {x} : x \in DifficultyWeightChoices },
        v \in { {} } }
    \cup
    { Field("difficulty_weights", d) @@ Field("value_weights", v) :
        d \in { {} },
        v \in { {x} : x \in ValueWeightChoices } }
    \cup
    { Field("difficulty_weights", {DW(50, 30, 10, 5)})
        @@ Field("value_weights", {VW(40, 30, 20, 10)}),
      Field("difficulty_weights", {DW(100, 100, 100, 100)})
        @@ Field("value_weights", {VW(100, 100, 100, 100)}),
      Field("difficulty_weights", {"code_complexity" :> 40})
        @@ Field("value_weights", {"security_severity" :> 60}) }

ScoringConfigs ==
    { w @@ Field("scale", s) :
        w \in WeightConfigs, s \in { {} } \cup { {x} : x \in ScaleChoices } }
    \cup
    { Field("scale", {x}) : x \in BadScaleChoices }

RouteTagLists ==
    { <<>>, <<security>>, <<perf>>, <<style>>, <<style, security>>,
      <<upper(security)>>, <<docs>> }

\* the routers read only the tags of an item's finding
RouteItems ==
    { ScoredItem(Finding("bandit", INFO, t), 100, 100, 50) : t \in RouteTagLists }

PhaseDefs ==
    { [name |-> "Phase A", include_tags |-> t] :
        t \in { <<>>, <<security>>, <<<<"S","t","y","l","e">>, perf>>,
                <<docs, upper(security)>> } }
    \cup
    { [name |-> "Phase B", include_tags |-> t] :
        t \in { <<security>>, <<docs, upper(security)>> } }
    \cup
    { [name |-> Uncategorized, include_tags |-> t] : t \in { <<>>, <<security>> } }

\* the rules of to_phases (consolidate.py lines 15-22) written as a phase
\* configuration
FixedRulesConfig ==
    <<[name |-> Phase1, include_tags |-> <<security>>],
      [name |-> Phase2, include_tags |-> <<perf>>],
      [name |-> Phase0, include_tags |-> <<style>>]>>

PhaseConfigs == SeqUpTo(PhaseDefs, MaxPhases) \cup { FixedRulesConfig }

(***************************************************************************)
(* SpecSeverity: _severity_weight applied to a label.                      *)
(***************************************************************************)
InitSeverity ==
    /\ pc = "input"
    /\ RecommendIdle /\ PromptIdle /\ EngineIdle
    /\ sev \in SeverityLabels
    /\ weight = NoValue
    /\ findings = <<>> /\ scoring_config = EmptyDict /\ out = <<>>
    /\ items = <<>> /\ phase_config = <<>> /\ phases = EmptyDict

SeverityWeight ==
    /\ pc = "input"
    /\ weight' = _severity_weight(sev)
    /\ pc' = "weighed"
    /\ UNCHANGED <<sev, findings, scoring_config, out, items, phase_config, phases,
                 recommend_vars, prompt_vars, engine_vars>>

NextSeverity == SeverityWeight

SpecSeverity == InitSeverity /\ [][NextSeverity]_vars

(***************************************************************************)
(* SpecHeuristic: score_findings applied to a list of findings.            *)
(***************************************************************************)
InitHeuristic ==
    /\ pc = "input"
    /\ RecommendIdle /\ PromptIdle /\ EngineIdle
    /\ findings \in SeqUpTo(HeuristicFindings, MaxFindings)
    /\ out = <<>>
    /\ sev = <<>> /\ weight = NoValue /\ scoring_config = EmptyDict
    /\ items = <<>> /\ phase_config = <<>> /\ phases = EmptyDict

ScoreFindings ==
    /\ pc = "input"
    /\ out' = score_findings(findings)
    /\ pc' = "scored"
    /\ UNCHANGED <<sev, weight, findings, scoring_config, items, phase_config, phases,
                 recommend_vars, prompt_vars, engine_vars>>

NextHeuristic == ScoreFindings

SpecHeuristic == InitHeuristic /\ [][NextHeuristic]_vars

(***************************************************************************)
(* SpecConfig: score_findings_from_config applied to a list of findings    *)
(* and a scoring configuration.                                            *)
(***************************************************************************)
InitConfig ==
    /\ pc = "input"
    /\ RecommendIdle /\ PromptIdle /\ EngineIdle
    /\ findings \in SeqUpTo(ConfigFindings, MaxConfigFindings)
    /\ scoring_config \in ScoringConfigs
    /\ out = <<>>
    /\ sev = <<>> /\ weight = NoValue
    /\ items = <<>> /\ phase_config = <<>> /\ phases = EmptyDict

ScoreFindingsFromConfig ==
    /\ pc = "input"
    /\ \E fp \in FloatErrorMaps(Range(findings), scoring_config) :
          out' = score_findings_from_config(findings, scoring_config, fp)
    /\ pc' = IF ScaleParses(Get(scoring_config, "scale", DefaultScale))
             THEN "scored_config" ELSE "raised"
    /\ UNCHANGED <<sev, weight, findings, scoring_config, items, phase_config, phases,
                 recommend_vars, prompt_vars, engine_vars>>

NextConfig == ScoreFindingsFromConfig

SpecConfig == InitConfig /\ [][NextConfig]_vars

(***************************************************************************)
(* SpecRoute: to_phases or to_phases_from_config applied to a list of      *)
(* scored items.                                                           *)
(***************************************************************************)
InitRoute ==
    /\ pc = "input"
    /\ RecommendIdle /\ PromptIdle /\ EngineIdle
    /\ items \in SeqUpTo(RouteItems, MaxItems)
    /\ phase_config = <<>>
    /\ phases = EmptyDict
    /\ sev = <<>> /\ weight = NoValue
    /\ findings = <<>> /\ scoring_config = EmptyDict /\ out = <<>>

ToPhases ==
    /\ pc = "input"
    /\ phases' = to_phases(items)
    /\ pc' = "routed"
    /\ UNCHANGED <<sev, weight, findings, scoring_config, out, items, phase_config,
                 recommend_vars, prompt_vars, engine_vars>>

ToPhasesFromConfig ==
    /\ pc = "input"
    /\ \E cfg \in PhaseConfigs :
          /\ phase_config' = cfg
          /\ phases' = to_phases_from_config(items, cfg)
    /\ pc' = "routed_config"
    /\ UNCHANGED <<sev, weight, findings, scoring_config, out, items,
                 recommend_vars, prompt_vars, engine_vars>>

NextRoute == ToPhases \/ ToPhasesFromConfig

SpecRoute == InitRoute /\ [][NextRoute]_vars

(***************************************************************************)
(* SpecMap: either scorer applied to a list of findings in which a finding *)
(* may occur more than once, under a configuration where float rounding    *)
(* decides some of the results.                                            *)
(***************************************************************************)
MaxMapFindings == 2     \* longest list given to the scorers here

MapFindings ==
    { Finding("bandit", LOW, <<security>>), Finding("bandit", LOW, <<>>),
      Finding("flake8", CRITICAL, <<security>>),
      Finding("bandit", HIGH, <<security, perf>>),
      Finding("semgrep", HIGH, <<tests>>),
      Finding("flake8", INFO, <<style, perf>>),
      Finding("bandit", CRITICAL, <<security>>), Finding("bandit", INFO, <<security>>),
      Finding("flake8", INFO, <<security>>),
      Finding("semgrep", CRITICAL, <<perf, security, tests>>),
      Finding("semgrep", INFO, <<perf, security, tests>>),
      Finding("bandit", CRITICAL, <<upper(security)>>) }

MapConfigs ==
    { EmptyDict,
      Field("scale", {<<"0","-","1","0">>}),
      Field("value_weights", {"security_severity" :> 60}),
      Field("difficulty_weights", {DW(50, 30, 10, 5)})
        @@ Field("value_weights", {VW(40, 30, 20, 10)}),
      Field("difficulty_weights", {DW(100, 100, 100, 100)})
        @@ Field("scale", {<<"0","-","1","0">>}),
      Field("difficulty_weights", {DW(0, 40, 40, 20)})
        @@ Field("value_weights", {VW(0, 0, 50, 50)}),
      Field("scale", {<<"5","-","1">>}) }

InitMap ==
    /\ pc = "input"
    /\ RecommendIdle /\ PromptIdle /\ EngineIdle
    /\ findings \in SeqUpTo(MapFindings, MaxMapFindings)
    /\ scoring_config \in MapConfigs
    /\ out = <<>>
    /\ sev = <<>> /\ weight = NoValue
    /\ items = <<>> /\ phase_config = <<>> /\ phases = EmptyDict

NextMap == ScoreFindings \/ ScoreFindingsFromConfig

SpecMap == InitMap /\ [][NextMap]_vars

(***************************************************************************)
(* SpecExact: score_findings or to_phases applied to findings and items    *)
(* whose tags are written in other letter cases than the ones the code     *)
(* names.                                                                  *)
(***************************************************************************)
MaxExact == 1           \* longest list given to score_findings and to_phases here

ExactTagLists ==
    { <<>>, <<security>>, <<perf>>, <<style>>,
      <<upper(security)>>, <<upper(perf)>>,
      <<<<"P","e","r","f">>>>, <<<<"S","t","y","l","e">>>> }

ExactFindings ==
    { Finding("bandit", s, t) : s \in { CRITICAL, MEDIUM, LOW }, t \in ExactTagLists }

ExactItems ==
    { ScoredItem(Finding("bandit", INFO, t), 100, 100, 50) : t \in ExactTagLists }

InitExact ==
    /\ pc = "input"
    /\ RecommendIdle /\ PromptIdle /\ EngineIdle
    /\ findings \in SeqUpTo(ExactFindings, MaxExact)
    /\ items \in SeqUpTo(ExactItems, MaxExact)
    /\ out = <<>> /\ phases = EmptyDict
    /\ sev = <<>> /\ weight = NoValue
    /\ scoring_config = EmptyDict /\ phase_config = <<>>

NextExact == ScoreFindings \/ ToPhases

SpecExact == InitExact /\ [][NextExact]_vars

(***************************************************************************)
(* SpecRecommend: generate_enhanced_recommendation applied to a scored     *)
(* item.                                                                   *)
(***************************************************************************)
ScoringIdle ==
    /\ sev = <<>> /\ weight = NoValue
    /\ findings = <<>> /\ scoring_config = EmptyDict /\ out = <<>>

RoutingIdle == items = <<>> /\ phase_config = <<>> /\ phases = EmptyDict

\* a Finding with the fields file and line, which the recommendation reads
FindingAt(tool, severity, tags, file, line) ==
    [tool |-> tool, severity |-> severity, tags |-> tags, file |-> file, line |-> line]

RecommendTagLists ==
    { <<>>, <<security>>, <<perf>>, <<tests>>, <<style>>, <<docs>>,
      <<style, security>>, <<perf, tests, style>>, <<upper(security)>> }

RecommendFiles ==
    { <<"a", ".", "p", "y">>, <<"a", ".", "j", "s">>, <<"a", ".", "p", "y", "c">>,
      <<"p", "y">>, <<"a", ".", "P", "Y">> }

\* scores in hundredths, on both sides of 2.0 and 4.0 and off the 1-5 scale
RecommendScores == { 0, 199, 200, 201, 399, 400, 401, 780 }

RecommendItems ==
    { ScoredItem(FindingAt(tool, HIGH, t, file, line), dr, vi, 200) :
        tool \in { "flake8", "mypy" }, t \in RecommendTagLists,
        file \in RecommendFiles, line \in { <<>>, <<7>> },
        dr \in RecommendScores, vi \in RecommendScores }

InitRecommend ==
    /\ pc = "input"
    /\ item \in RecommendItems
    /\ recommendation = NoValue
    /\ ScoringIdle /\ RoutingIdle /\ PromptIdle /\ EngineIdle

GenerateEnhancedRecommendation ==
    /\ pc = "input"
    /\ recommendation' = generate_enhanced_recommendation(item)
    /\ pc' = "recommended"
    /\ UNCHANGED <<item, scoring_vars, routing_vars, prompt_vars, engine_vars>>

NextRecommend == GenerateEnhancedRecommendation

SpecRecommend == InitRecommend /\ [][NextRecommend]_vars

(***************************************************************************)
(* SpecPrompt: extract_file_context applied to a path, a line number and a *)
(* number of context lines, or generate_patch_prompt applied to a finding, *)
(* or select_template_for_finding applied to a finding and a templates     *)
(* dict, or load_prompt_templates applied to the templates file.           *)
(***************************************************************************)
MaxTextLen == 4         \* longest text of a source file, in characters

TextChars == {"a", "b", NewLine}

Texts == SeqUpTo(TextChars, MaxTextLen)

SourcePath == <<"a", ".", "p", "y">>

\* the source file: missing, unreadable, or readable with a text
SourceFiles(texts) ==
    { EmptyDict, SourcePath :> Unreadable } \cup { SourcePath :> TextFile(t) : t \in texts }

FullTemplates ==
    [system_prompt              |-> "You are a senior engineer.",
     patch_template             |-> <<"message", "file", "line", "full_context">>,
     security_patch_template    |-> <<"severity", "rule_id", "full_context">>,
     performance_patch_template |-> <<"tool", "context_before", "context_after">>,
     context_lines              |-> 1]

TemplateDicts ==
    { FullTemplates,
      [patch_template |-> <<"file", "full_context">>],
      [patch_template |-> <<"file", "line">>,
       performance_patch_template |-> <<"tool", "message">>],
      [patch_template |-> <<"message", "code">>,
       security_patch_template |-> <<"full_context">>],
      EmptyDict }

\* the templates file: missing, unreadable, malformed, or a dict
TemplateFiles ==
    { EmptyDict, TemplatesPath :> Unreadable, TemplatesPath :> Malformed }
    \cup { TemplatesPath :> YamlFile(d) : d \in {FullTemplates, EmptyDict} }

PromptFindings ==
    { FindingAt("bandit", HIGH, t, SourcePath, line)
        @@ [rule_id |-> "B602", message |-> "shell injection"] :
        t \in { <<>>, <<style>>, <<upper(security)>>, <<secrets>>, <<perf>>,
                <<performance>>, <<sast, perf>>, <<perf, security>> },
        line \in { <<>>, <<0>>, <<1>>, <<3>> } }

InitPrompt ==
    /\ ScoringIdle /\ RoutingIdle /\ RecommendIdle /\ EngineIdle
    /\ context = NoValue /\ selected = NoValue /\ loaded = NoValue
    /\ prompt = NoValue
    /\ \/ /\ pc = "call_extract"
          /\ files \in SourceFiles(Texts)
          /\ file_path = SourcePath
          /\ line_num \in -1..(MaxTextLen + 1)
          /\ context_lines \in -1..MaxTextLen
          /\ finding = NoValue /\ templates = NoValue
       \/ /\ pc = "call_generate"
          /\ files \in { s @@ t :
                s \in SourceFiles({ <<>>, <<"a", NewLine, "b", NewLine>> }),
                t \in TemplateFiles }
          /\ finding \in PromptFindings
          /\ templates \in { <<>> } \cup { <<d>> : d \in TemplateDicts }
          /\ context_lines \in { <<>>, <<0>>, <<1>>, <<5>> }
          /\ file_path = NoValue /\ line_num = NoValue
       \/ /\ pc = "call_select"
          /\ finding \in PromptFindings
          /\ templates \in { <<d>> : d \in TemplateDicts }
          /\ files = NoValue /\ context_lines = NoValue
          /\ file_path = NoValue /\ line_num = NoValue
       \/ /\ pc = "call_load"
          /\ files \in TemplateFiles
          /\ finding = NoValue /\ templates = NoValue /\ context_lines = NoValue
          /\ file_path = NoValue /\ line_num = NoValue

ExtractFileContext ==
    /\ pc = "call_extract"
    /\ \E include_line_numbers \in BOOLEAN :
          context' = extract_file_context(files, file_path, line_num, context_lines,
                                          include_line_numbers)
    /\ pc' = "extracted"
    /\ UNCHANGED <<files, finding, templates, file_path, line_num, context_lines, prompt,
                   selected, loaded, scoring_vars, routing_vars, recommend_vars,
                   engine_vars>>

GeneratePatchPrompt ==
    /\ pc = "call_generate"
    /\ \E include_system_prompt \in BOOLEAN :
          prompt' = generate_patch_prompt(files, finding, context_lines,
                                          include_system_prompt, templates)
    /\ pc' = "generated"
    /\ UNCHANGED <<files, finding, templates, file_path, line_num, context_lines, context,
                   selected, loaded, scoring_vars, routing_vars, recommend_vars,
                   engine_vars>>

SelectTemplateForFinding ==
    /\ pc = "call_select"
    /\ selected' = select_template_for_finding(finding, templates[1])
    /\ pc' = "selected"
    /\ UNCHANGED <<files, finding, templates, file_path, line_num, context_lines, context,
                   loaded, prompt, scoring_vars, routing_vars, recommend_vars,
                   engine_vars>>

LoadPromptTemplates ==
    /\ pc = "call_load"
    /\ loaded' = load_prompt_templates(files)
    /\ pc' = "loaded"
    /\ UNCHANGED <<files, finding, templates, file_path, line_num, context_lines, context,
                   selected, prompt, scoring_vars, routing_vars, recommend_vars,
                   engine_vars>>

NextPrompt ==
    \/ ExtractFileContext
    \/ GeneratePatchPrompt
    \/ SelectTemplateForFinding
    \/ LoadPromptTemplates

SpecPrompt == InitPrompt /\ [][NextPrompt]_vars

(***************************************************************************)
(* main.py: run_full_pass.  The engine configuration is the state of       *)
(* config/engine.yaml: Absent, Malformed or YamlFile(d).  Each stage of    *)
(* the run is one action; what the environment decides (a tool that        *)
(* raises, a write that fails, the provider call) is chosen in the action. *)
(* The output directory is <<>> until it is created and <<S>> with the set *)
(* S of its files afterwards.  The repository is a valid directory, so     *)
(* _validate_repository returns.                                           *)
(***************************************************************************)
MaxToolFindings == 1    \* longest list a static analysis tool returns

Absent == [kind |-> "absent"]

Stage(name, ok) == [stage |-> name, ok |-> ok]

\* lines 97-101: the tools in the order they are called
ToolOrder == <<"flake8", "bandit", "semgrep">>

\* the findings collected so far dropped when a tool raises
RECURSIVE RunToolsAllOrNothing(_, _, _)
RunToolsAllOrNothing(tl, k, acc) ==
    IF k > Len(ToolOrder) THEN [failed |-> FALSE, findings |-> acc]
    ELSE IF Raises(tl[ToolOrder[k]]) THEN [failed |-> TRUE, findings |-> <<>>]
    ELSE RunToolsAllOrNothing(tl, k + 1, acc \o tl[ToolOrder[k]].returned)

\* lines 95-101: findings += run_x(...), tool after tool, until one raises
RECURSIVE RunTools(_, _, _)
RunTools(tl, k, acc) ==
    IF k > Len(ToolOrder) THEN [failed |-> FALSE, findings |-> acc]
    ELSE IF Raises(tl[ToolOrder[k]]) THEN [failed |-> TRUE, findings |-> acc]
    ELSE RunTools(tl, k + 1, acc \o tl[ToolOrder[k]].returned)

\* line 166: ai_override or cfg["ai"]["provider"]
ProviderInUse(override, config) ==
    IF override # <<>> THEN override[1] ELSE config["ai"]

\* path.write_text of utils.py: the file is in the directory afterwards
WriteFile(dir, name) == <<dir[1] \cup {name}>>

ToolOutcomes(tool) ==
    { Raise("Exception") }
    \cup { Return(fs) : fs \in SeqUpTo({ Finding(tool, HIGH, <<security>>) }, MaxToolFindings) }

EngineConfigs ==
    { [ai |-> "none"],
      [ai |-> "openai", scoring |-> EmptyDict,
       phasing |-> <<[name |-> "Phase A", include_tags |-> <<security>>]>>],
      [ai |-> "none", scoring |-> ("scale" :> <<"5">>)],
      [ai |-> "anthropic", phasing |-> <<>>] }

InitPipeline ==
    /\ pc = "start"
    /\ engine_config \in { Absent, Malformed } \cup { YamlFile(d) : d \in EngineConfigs }
    /\ ai_override \in { <<>>, <<"none">>, <<"openai">> }
    /\ tools \in [flake8 : ToolOutcomes("flake8"), bandit : ToolOutcomes("bandit"),
                  semgrep : ToolOutcomes("semgrep")]
    /\ out_dir = <<>>
    /\ executed = <<>>
    /\ scored = <<>>
    /\ ScoringIdle /\ RoutingIdle /\ RecommendIdle /\ PromptIdle
    /\ PatchIdle /\ JobIdle

\* lines 63-70: the configuration is loaded, then the directory created
LoadEngineConfig ==
    /\ pc = "start"
    /\ IF engine_config.kind = "yaml"
       THEN /\ executed' = Append(executed, Stage("config", TRUE))
            /\ out_dir' = <<{}>>
            /\ pc' = "manifest"
       ELSE /\ executed' = Append(executed, Stage("config", FALSE))
            /\ out_dir' = out_dir
            /\ pc' = "returned"
    /\ UNCHANGED <<engine_config, ai_override, tools, scored,
                   scoring_vars, routing_vars, recommend_vars, prompt_vars,
                   patch_vars, job_vars>>

\* lines 82-91
BuildManifest ==
    /\ pc = "manifest"
    /\ \E ok \in BOOLEAN :
          /\ executed' = Append(executed, Stage("manifest", ok))
          /\ out_dir' = IF ok THEN WriteFile(out_dir, "000_manifest.json") ELSE out_dir
          /\ pc' = IF ok THEN "static" ELSE "returned"
    /\ UNCHANGED <<engine_config, ai_override, tools, scored,
                   scoring_vars, routing_vars, recommend_vars, prompt_vars,
                   patch_vars, job_vars>>

\* lines 94-109
RunStaticAnalysis ==
    /\ pc = "static"
    /\ LET r == RunTools(tools, 1, <<>>)
       IN  /\ findings' = r.findings
           /\ \E written \in (IF r.failed THEN {FALSE} ELSE BOOLEAN) :
                 /\ executed' = Append(executed, Stage("static", written))
                 /\ out_dir' = IF written
                               THEN WriteFile(out_dir, "010_static_findings.json")
                               ELSE out_dir
    /\ pc' = "scoring"
    /\ UNCHANGED <<engine_config, ai_override, tools, scored,
                   sev, weight, scoring_config, out,
                   routing_vars, recommend_vars, prompt_vars, patch_vars, job_vars>>

\* lines 112-124
ScoreStage ==
    /\ pc = "scoring"
    /\ LET config == engine_config.value
       IN  \E fp \in (IF "scoring" \in DOMAIN config
                      THEN FloatErrorMaps(Range(findings), config["scoring"])
                      ELSE { EmptyDict }) :
             LET r == IF "scoring" \in DOMAIN config
                      THEN score_findings_from_config(findings, config["scoring"], fp)
                      ELSE score_findings(findings)
                 raised == "scoring" \in DOMAIN config
                           /\ ~ScaleParses(Get(config["scoring"], "scale", DefaultScale))
             IN  \E written \in (IF raised THEN {FALSE} ELSE BOOLEAN) :
                   /\ scored' = IF raised THEN scored ELSE <<r>>
                   /\ executed' = Append(executed, Stage("scoring", written))
                   /\ out_dir' = IF written THEN WriteFile(out_dir, "030_scores.json")
                                 ELSE out_dir
                   /\ pc' = IF written THEN "recommend" ELSE "returned"
    /\ UNCHANGED <<engine_config, ai_override, tools,
                   scoring_vars, routing_vars, recommend_vars, prompt_vars,
                   patch_vars, job_vars>>

\* lines 127-144
Recommendations ==
    /\ pc = "recommend"
    /\ \E ok \in BOOLEAN :
          /\ executed' = Append(executed, Stage("recommendations", ok))
          /\ out_dir' = IF ok THEN WriteFile(out_dir, "040_recommendations.md") ELSE out_dir
    /\ pc' = "plan"
    /\ UNCHANGED <<engine_config, ai_override, tools, scored,
                   scoring_vars, routing_vars, recommend_vars, prompt_vars,
                   patch_vars, job_vars>>

\* lines 147-163
PhasedPlan ==
    /\ pc = "plan"
    /\ phases' = to_phases_from_config(scored[1], Get(engine_config.value, "phasing", <<>>))
    /\ \E ok \in BOOLEAN :
          /\ executed' = Append(executed, Stage("plan", ok))
          /\ out_dir' = IF ok THEN WriteFile(out_dir, "050_phased_plan.md") ELSE out_dir
    /\ pc' = "ai"
    /\ UNCHANGED <<engine_config, ai_override, tools, scored,
                   scoring_vars, items, phase_config, recommend_vars, prompt_vars,
                   patch_vars, job_vars>>

\* lines 166-198: no provider, or the prompts are generated (outside any
\* try, lines 170-177) and propose_patches is called inside one
AIPatches ==
    /\ pc = "ai"
    /\ IF ProviderInUse(ai_override, engine_config.value) = "none"
       THEN /\ pc' = "finished"
            /\ UNCHANGED <<executed, out_dir>>
       ELSE \E outcome \in {"patched", "skipped"}
                           \cup (IF scored[1] # <<>> THEN {"raised"} ELSE {}) :
              /\ executed' = Append(executed, Stage("ai", outcome = "patched"))
              /\ out_dir' = IF outcome = "patched"
                            THEN WriteFile(out_dir, "060_ai_patch_suggestions.md")
                            ELSE out_dir
              /\ pc' = IF outcome = "raised" THEN "raised" ELSE "finished"
    /\ UNCHANGED <<engine_config, ai_override, tools, scored,
                   scoring_vars, routing_vars, recommend_vars, prompt_vars,
                   patch_vars, job_vars>>

NextPipeline ==
    \/ LoadEngineConfig
    \/ BuildManifest
    \/ RunStaticAnalysis
    \/ ScoreStage
    \/ Recommendations
    \/ PhasedPlan
    \/ AIPatches

SpecPipeline == InitPipeline /\ [][NextPipeline]_vars

(***************************************************************************)
(* ai_apply.py: propose_patches under its decorator                        *)
(* @retry(stop=stop_after_attempt(3), retry=retry_if_exception_type(       *)
(* (Exception,))).  The decorator calls the function again after any       *)
(* exception, up to the third attempt; it is not given reraise=True, so    *)
(* when the third attempt fails it raises RetryError, which wraps the      *)
(* exception of that attempt.  The waits between attempts and of the rate  *)
(* limiter take time and change nothing else.  A response is identified by *)
(* the attempt it was received in and the prompt it answers.               *)
(***************************************************************************)
MaxPrompts == 2         \* longest list of prompts given to propose_patches

\* line 274: stop_after_attempt(3)
MaxAttempts == 3

\* lines 312-317
SupportedProviders == {"openai", "anthropic", "gemini"}

Response(n, i, p) == [attempt |-> n, index |-> i, prompt |-> p]

\* a decorator that allows one attempt more
RetryOnceMore(n, e) ==
    IF n < MaxAttempts + 1
    THEN [again |-> TRUE]
    ELSE [again |-> FALSE, raised |-> "RetryError", cause |-> e]

\* lines 273-277: what the decorator does when attempt n ended with exception e
Retry(n, e) ==
    IF n < MaxAttempts
    THEN [again |-> TRUE]
    ELSE [again |-> FALSE, raised |-> "RetryError", cause |-> e]

InitPatches ==
    /\ pc = "attempt"
    /\ provider \in SupportedProviders \cup {"unsupported", "none"}
    /\ prompts \in SeqUpTo({"p", "q"}, MaxPrompts)
    /\ attempt_number = 1
    /\ outputs = <<>>
    /\ api_calls = 0
    /\ exception = NoValue
    /\ patches = NoValue
    /\ ScoringIdle /\ RoutingIdle /\ RecommendIdle /\ PromptIdle
    /\ PipelineIdle /\ JobIdle

\* lines 307-319 and 111-117: the body of propose_patches up to the loop of
\* the provider call
StartAttempt ==
    /\ pc = "attempt"
    /\ IF prompts = <<>>
       THEN /\ patches' = Return(<<>>)
            /\ pc' = "returned"
            /\ UNCHANGED <<outputs, exception>>
       ELSE IF provider \notin SupportedProviders
       THEN /\ exception' = "ValueError"
            /\ pc' = "failed"
            /\ UNCHANGED <<outputs, patches>>
       ELSE \E installed \in BOOLEAN :
              /\ exception' = IF installed THEN exception ELSE "ImportError"
              /\ pc' = IF installed THEN "loop" ELSE "failed"
              /\ outputs' = <<>>
              /\ UNCHANGED patches
    /\ UNCHANGED <<provider, prompts, attempt_number, api_calls,
                   scoring_vars, routing_vars, recommend_vars, prompt_vars,
                   pipeline_vars, job_vars>>

\* lines 121-131 (181-191, 241-253): one request of the loop over prompts
CallProvider ==
    /\ pc = "loop"
    /\ Len(outputs) < Len(prompts)
    /\ api_calls' = api_calls + 1
    /\ \E answered \in BOOLEAN :
          IF answered
          THEN /\ outputs' = Append(outputs,
                                    Response(attempt_number, Len(outputs) + 1,
                                             prompts[Len(outputs) + 1]))
               /\ UNCHANGED <<pc, exception>>
          ELSE /\ exception' = "APIError"
               /\ pc' = "failed"
               /\ UNCHANGED outputs
    /\ UNCHANGED <<provider, prompts, attempt_number, patches,
                   scoring_vars, routing_vars, recommend_vars, prompt_vars,
                   pipeline_vars, job_vars>>

\* lines 138-148 and 321-323: the loop is over, the outputs are returned
ReturnOutputs ==
    /\ pc = "loop"
    /\ Len(outputs) = Len(prompts)
    /\ patches' = Return(outputs)
    /\ pc' = "returned"
    /\ UNCHANGED <<provider, prompts, attempt_number, outputs, api_calls, exception,
                   scoring_vars, routing_vars, recommend_vars, prompt_vars,
                   pipeline_vars, job_vars>>

\* lines 273-277: the decorator after an attempt that raised
RetryOrGiveUp ==
    /\ pc = "failed"
    /\ LET r == Retry(attempt_number, exception)
       IN  IF r.again
           THEN /\ attempt_number' = attempt_number + 1
                /\ pc' = "attempt"
                /\ UNCHANGED patches
           ELSE /\ patches' = [raised |-> r.raised, cause |-> r.cause]
                /\ pc' = "raised"
                /\ UNCHANGED attempt_number
    /\ UNCHANGED <<provider, prompts, outputs, api_calls, exception,
                   scoring_vars, routing_vars, recommend_vars, prompt_vars,
                   pipeline_vars, job_vars>>

NextPatches ==
    \/ StartAttempt
    \/ CallProvider
    \/ ReturnOutputs
    \/ RetryOrGiveUp

SpecPatches == InitPatches /\ [][NextPatches]_vars

(***************************************************************************)
(* api/main.py: one analysis job.  start_analysis creates the job row and  *)
(* queues run_analysis as a background task; get_analysis_result can be    *)
(* requested at any moment, between any two steps of the task.  The job    *)
(* row is <<>> until it is created and <<row>> afterwards; update_job of   *)
(* database.py sets the given columns and commits.  The database is        *)
(* available: its calls return.  A step of run_analysis that raises goes   *)
(* to the handler of lines 505-513; a file opened for writing exists from  *)
(* then on, whether or not the write that follows succeeds.                *)
(***************************************************************************)
\* database.py lines 163-171: setattr for each key of updates, then commit
update_job(row, updates) ==
    IF row = <<>> THEN row
    ELSE <<[key \in DOMAIN row[1] |->
              IF key \in DOMAIN updates THEN updates[key] ELSE row[1][key]]>>

\* lines 266-275: the files get_analysis_result opens
ResultFiles == {"030_scores.json", "040_recommendations.md", "050_phased_plan.md"}

\* the request answered from the files whatever the status
ResultWithoutStatusTest(row, dir) ==
    IF row = <<>> THEN [observed |-> "no job", code |-> 404, read |-> FALSE]
    ELSE [observed |-> row[1].status,
          code     |-> IF ResultFiles \subseteq dir THEN 200 ELSE 500,
          read     |-> TRUE]

\* lines 249-301: the answer of get_analysis_result, with the status it saw
\* and whether it opened the files
get_analysis_result(row, dir) ==
    IF row = <<>> THEN [observed |-> "no job", code |-> 404, read |-> FALSE]
    ELSE IF row[1].status # "completed"
    THEN [observed |-> row[1].status, code |-> 400, read |-> FALSE]
    ELSE [observed |-> row[1].status,
          code     |-> IF ResultFiles \subseteq dir THEN 200 ELSE 500,
          read     |-> TRUE]

InitJobs ==
    /\ pc = "request"
    /\ job = <<>>
    /\ output_dir = {}
    /\ responses = {}
    /\ ScoringIdle /\ RoutingIdle /\ RecommendIdle /\ PromptIdle
    /\ PipelineIdle /\ PatchIdle

\* lines 171-204
StartAnalysis ==
    /\ pc = "request"
    /\ job' = <<[status |-> "queued", progress |-> 0]>>
    /\ pc' = "queued"
    /\ UNCHANGED <<output_dir, responses,
                   scoring_vars, routing_vars, recommend_vars, prompt_vars,
                   pipeline_vars, patch_vars>>

\* lines 317-322
SetRunning ==
    /\ pc = "queued"
    /\ job' = update_job(job, [status |-> "running", progress |-> 10])
    /\ pc' = "clone"
    /\ UNCHANGED <<output_dir, responses,
                   scoring_vars, routing_vars, recommend_vars, prompt_vars,
                   pipeline_vars, patch_vars>>

\* lines 325-351: the directories are made and the repository cloned
CloneRepository ==
    /\ pc = "clone"
    /\ \E cloned \in BOOLEAN : pc' = IF cloned THEN "filter" ELSE "except"
    /\ UNCHANGED <<job, output_dir, responses,
                   scoring_vars, routing_vars, recommend_vars, prompt_vars,
                   pipeline_vars, patch_vars>>

\* lines 354-371
FilterFiles ==
    /\ pc = "filter"
    /\ \E filtered \in BOOLEAN :
          IF filtered
          THEN /\ job' = update_job(update_job(job, [progress |-> 30]), [progress |-> 40])
               /\ pc' = "review"
          ELSE /\ job' = update_job(job, [progress |-> 30])
               /\ pc' = "except"
    /\ UNCHANGED <<output_dir, responses,
                   scoring_vars, routing_vars, recommend_vars, prompt_vars,
                   pipeline_vars, patch_vars>>

\* lines 375-395 and 484-490: without an API key the job is failed and the
\* task returns; with one the repository is reviewed
ReviewRepository ==
    /\ pc = "review"
    /\ \E api_key \in BOOLEAN, reviewed \in BOOLEAN :
          IF ~api_key
          THEN /\ job' = update_job(job, [status |-> "failed"])
               /\ pc' = "done"
          ELSE IF reviewed
          THEN /\ job' = update_job(job, [progress |-> 80])
               /\ pc' = "write_scores"
          ELSE /\ pc' = "except"
               /\ UNCHANGED job
    /\ UNCHANGED <<output_dir, responses,
                   scoring_vars, routing_vars, recommend_vars, prompt_vars,
                   pipeline_vars, patch_vars>>

\* lines 417-422
WriteScores ==
    /\ pc = "write_scores"
    /\ output_dir' = output_dir \cup {"030_scores.json"}
    /\ \E written \in BOOLEAN : pc' = IF written THEN "write_recommendations" ELSE "except"
    /\ UNCHANGED <<job, responses,
                   scoring_vars, routing_vars, recommend_vars, prompt_vars,
                   pipeline_vars, patch_vars>>

\* lines 425-459
WriteRecommendations ==
    /\ pc = "write_recommendations"
    /\ output_dir' = output_dir \cup {"040_recommendations.md"}
    /\ \E written \in BOOLEAN : pc' = IF written THEN "write_plan" ELSE "except"
    /\ UNCHANGED <<job, responses,
                   scoring_vars, routing_vars, recommend_vars, prompt_vars,
                   pipeline_vars, patch_vars>>

\* lines 462-482
WritePlan ==
    /\ pc = "write_plan"
    /\ output_dir' = output_dir \cup {"050_phased_plan.md"}
    /\ \E written \in BOOLEAN : pc' = IF written THEN "complete" ELSE "except"
    /\ UNCHANGED <<job, responses,
                   scoring_vars, routing_vars, recommend_vars, prompt_vars,
                   pipeline_vars, patch_vars>>

\* lines 493-503
MarkCompleted ==
    /\ pc = "complete"
    /\ job' = update_job(job, [status |-> "completed", progress |-> 100])
    /\ pc' = "done"
    /\ UNCHANGED <<output_dir, responses,
                   scoring_vars, routing_vars, recommend_vars, prompt_vars,
                   pipeline_vars, patch_vars>>

\* lines 505-513
MarkFailed ==
    /\ pc = "except"
    /\ job' = update_job(job, [status |-> "failed"])
    /\ pc' = "done"
    /\ UNCHANGED <<output_dir, responses,
                   scoring_vars, routing_vars, recommend_vars, prompt_vars,
                   pipeline_vars, patch_vars>>

\* lines 242-301: a request for the result, at any moment
GetAnalysisResult ==
    /\ responses' = responses \cup {get_analysis_result(job, output_dir)}
    /\ UNCHANGED <<pc, job, output_dir,
                   scoring_vars, routing_vars, recommend_vars, prompt_vars,
                   pipeline_vars, patch_vars>>

NextJobs ==
    \/ StartAnalysis
    \/ SetRunning
    \/ CloneRepository
    \/ FilterFiles
    \/ ReviewRepository
    \/ WriteScores
    \/ WriteRecommendations
    \/ WritePlan
    \/ MarkCompleted
    \/ MarkFailed
    \/ GetAnalysisResult

SpecJobs == InitJobs /\ [][NextJobs]_vars

(***************************************************************************)
(* SpecTriage: score_findings applied to a list of findings, then          *)
(* generate_enhanced_recommendation applied to one of the scored items, as *)
(* run_full_pass does (main.py lines 117 and 136-137).                     *)
(***************************************************************************)
MaxTriage == 1          \* longest list of findings scored before the recommendation

TriageFindings ==
    { FindingAt("bandit", s, t, SourcePath, <<7>>) :
        s \in { CRITICAL, HIGH, MEDIUM, LOW, INFO, lower(CRITICAL), lower(INFO),
                <<"H", "i", "g", "h">>, WARNING, <<>> },
        t \in { <<>>, <<security>>, <<perf>>, <<style>>, <<security, perf>>,
                <<perf, style>>, <<upper(security)>>, <<upper(perf)>> } }

InitTriage ==
    /\ pc = "input"
    /\ findings \in SeqUpTo(TriageFindings, MaxTriage)
    /\ out = <<>>
    /\ sev = <<>> /\ weight = NoValue /\ scoring_config = EmptyDict
    /\ RoutingIdle /\ RecommendIdle /\ PromptIdle /\ EngineIdle

\* main.py lines 136-137: the recommendation of a scored item
RecommendScored ==
    /\ pc = "scored"
    /\ \E i \in 1..Len(out) :
          /\ item' = out[i]
          /\ recommendation' = generate_enhanced_recommendation(out[i])
    /\ pc' = "triaged"
    /\ UNCHANGED <<scoring_vars, routing_vars, prompt_vars, engine_vars>>

NextTriage == ScoreFindings \/ RecommendScored

SpecTriage == InitTriage /\ [][NextTriage]_vars

(***************************************************************************)
(* Helpers of the properties.                                              *)
(***************************************************************************)
Count(x, xs) == Cardinality({ i \in 1..Len(xs) : xs[i] = x })

RECURSIVE TotalLen(_, _)
TotalLen(ph, names) ==
    IF names = {} THEN 0
    ELSE LET n == CHOOSE m \in names : TRUE
         IN  Len(ph[n]) + TotalLen(ph, names \ {n})

RECURSIVE TotalCount(_, _, _)
TotalCount(x, ph, names) ==
    IF names = {} THEN 0
    ELSE LET n == CHOOSE m \in names : TRUE
         IN  Count(x, ph[n]) + TotalCount(x, ph, names \ {n})

Least(M) == CHOOSE k \in M : \A j \in M : k <= j

\* the lists have a tag in common, compared as written
SharesTag(a, b) == \E i \in 1..Len(a) : \E j \in 1..Len(b) : a[i] = b[j]

\* the lists have a tag in common, compared without regard to letter case
EqualAnyCase(x, y) ==
    Len(x) = Len(y) /\ \A k \in 1..Len(x) : UpperChar(x[k]) = UpperChar(y[k])

SharesTagAnyCase(a, b) ==
    \E i \in 1..Len(a) : \E j \in 1..Len(b) : EqualAnyCase(a[i], b[j])

\* x (hundredths) is a hundredth nearest to the exact value y (ten-thousandths)
RoundedFrom(x, y) == 100 * x - y \in -50..50

(***************************************************************************)
(* C1.  The routers partition their input: to_phases and                   *)
(* to_phases_from_config put every input item in exactly one phase list,   *)
(* exactly once; the lengths of the phase lists add up to the number of    *)
(* input items.                                                            *)
(***************************************************************************)
C1_Partition ==
    pc \in {"routed", "routed_config"} =>
        /\ TotalLen(phases, DOMAIN phases) = Len(items)
        /\ \A x \in RouteItems :
              TotalCount(x, phases, DOMAIN phases) = Count(x, items)
        /\ \A i \in 1..Len(items) :
              Cardinality({ n \in DOMAIN phases : In(items[i], phases[n]) }) = 1

C1_Witness ==
    /\ pc = "routed_config"
    /\ Len(items) = 2
    /\ Len(phase_config) = 2
    /\ Len(phases[Uncategorized]) = 1
    /\ \E n \in DOMAIN phases \ {Uncategorized} : Len(phases[n]) = 1

(***************************************************************************)
(* C2 as stated.  In to_phases_from_config each item is placed in the      *)
(* first configured phase whose include_tags has a tag in common with the  *)
(* item's tags, and it is placed in "Uncategorized" if and only if no       *)
(* configured phase has a tag in common with it.  "In common" is read as   *)
(* the code compares tags, without regard to letter case.                  *)
(***************************************************************************)
C2_AsStated ==
    pc = "routed_config" =>
        \A i \in 1..Len(items) :
            LET M == { k \in 1..Len(phase_config) :
                         SharesTagAnyCase(items[i].finding.tags,
                                          phase_config[k].include_tags) }
            IN  /\ M # {} => In(items[i], phases[phase_config[Least(M)].name])
                /\ In(items[i], phases[Uncategorized]) <=> M = {}

(***************************************************************************)
(* C2 as amended.  Each item is placed in the first configured phase      *)
(* whose include_tags has a tag equal, up to letter case, to one of the    *)
(* item's tags; it is placed in "Uncategorized" if and only if no           *)
(* configured phase matches it in that sense or the first phase that does  *)
(* is itself named "Uncategorized".                                        *)
(***************************************************************************)
C2_FirstMatchAnyCase ==
    pc = "routed_config" =>
        \A i \in 1..Len(items) :
            LET M == { k \in 1..Len(phase_config) :
                         SharesTagAnyCase(items[i].finding.tags,
                                          phase_config[k].include_tags) }
            IN  /\ M # {} => In(items[i], phases[phase_config[Least(M)].name])
                /\ In(items[i], phases[Uncategorized])
                      <=> (M = {} \/ phase_config[Least(M)].name = Uncategorized)

C2_Witness ==
    /\ pc = "routed_config"
    /\ Len(phase_config) = 2
    /\ phase_config[1].name # phase_config[2].name
    /\ phase_config[1].name # Uncategorized
    /\ \E i \in 1..Len(items) :
          /\ \A k \in 1..2 : SharesTagAnyCase(items[i].finding.tags,
                                              phase_config[k].include_tags)
          /\ ~SharesTag(items[i].finding.tags, phase_config[1].include_tags)
          /\ In(items[i], phases[phase_config[1].name])
          /\ ~In(items[i], phases[phase_config[2].name])

(***************************************************************************)
(* C3.  to_phases routes by precedence, first match wins: tag "security"   *)
(* -> Phase 1; else "perf" -> Phase 2; else "style" -> Phase 0; else       *)
(* Phase 3.  Phase 4 stays empty, and an item tagged both "security" and   *)
(* "style" is never in Phase 0.                                            *)
(***************************************************************************)
C3_FixedPrecedence ==
    pc = "routed" =>
        /\ \A i \in 1..Len(items) :
              LET t   == items[i].finding.tags
                  sec == In(security, t)
                  prf == In(perf, t)
                  sty == In(style, t)
              IN  /\ In(items[i], phases[Phase1]) <=> sec
                  /\ In(items[i], phases[Phase2]) <=> (~sec /\ prf)
                  /\ In(items[i], phases[Phase0]) <=> (~sec /\ ~prf /\ sty)
                  /\ In(items[i], phases[Phase3]) <=> (~sec /\ ~prf /\ ~sty)
        /\ phases[Phase4] = <<>>

C3_Witness ==
    /\ pc = "routed"
    /\ \E i \in 1..Len(items) :
          /\ In(security, items[i].finding.tags)
          /\ In(style, items[i].finding.tags)
          /\ In(items[i], phases[Phase1])
          /\ ~In(items[i], phases[Phase0])
    /\ \E i \in 1..Len(items) :
          /\ items[i].finding.tags = <<>>
          /\ In(items[i], phases[Phase3])

(***************************************************************************)
(* The scale, the weights and the exact scores of the claims about         *)
(* score_findings_from_config, written out from the claims' wording.       *)
(***************************************************************************)
ConfiguredScale == IF "scale" \in DOMAIN scoring_config
                   THEN scoring_config["scale"] ELSE DefaultScale

\* a weight of the configuration; 0.25 when the group or the key is missing
ConfiguredWeight(group, key) ==
    IF group \in DOMAIN scoring_config
    THEN IF key \in DOMAIN scoring_config[group]
         THEN scoring_config[group][key] ELSE 25
    ELSE 25

ClaimedDifficultyRaw(f) ==
    LET sw == _severity_weight(f.severity)
    IN    ConfiguredWeight("difficulty_weights", "code_complexity") * sw
        + ConfiguredWeight("difficulty_weights", "coupling_blastradius")
            * (IF In(security, f.tags) THEN 100 ELSE 70)
        + ConfiguredWeight("difficulty_weights", "test_coverage_gap")
            * (IF In(tests, f.tags) THEN 80 ELSE 50)
        + ConfiguredWeight("difficulty_weights", "tooling_fixability")
            * (IF f.tool = "flake8" \/ f.tool = "pylint" THEN 30 ELSE 70)

ClaimedValueRaw(f) ==
    LET sw == _severity_weight(f.severity)
    IN    ConfiguredWeight("value_weights", "security_severity")
            * (IF In(security, f.tags) THEN sw ELSE 20)
        + ConfiguredWeight("value_weights", "reliability_perf")
            * (IF In(perf, f.tags) THEN sw ELSE 30)
        + ConfiguredWeight("value_weights", "developer_experience")
            * (IF In(tests, f.tags) \/ In(docs, f.tags) \/ In(typing, f.tags)
               THEN 60 ELSE 30)
        + ConfiguredWeight("value_weights", "user_value")
            * (IF In(ux, f.tags) \/ In(api, f.tags) \/ In(i18n, f.tags)
               THEN 70 ELSE 20)

\* final = min_score + raw * (max_score - min_score), in ten-thousandths
ClaimedFinal(raw) ==
    10000 * MinScore(ConfiguredScale)
        + raw * (MaxScore(ConfiguredScale) - MinScore(ConfiguredScale))

(***************************************************************************)
(* C4 as stated.  For every finding and every scoring configuration that   *)
(* score_findings_from_config accepts (any weights, any scale "min-max"),  *)
(* difficulty_risk and value_importance lie within [min_score, max_score]. *)
(* The scale is taken with min_score <= max_score.                         *)
(***************************************************************************)
C4_WithinScale ==
    (pc = "scored_config" /\ MinScore(ConfiguredScale) <= MaxScore(ConfiguredScale)) =>
        \A i \in 1..Len(out) :
            /\ 100 * MinScore(ConfiguredScale) <= out[i].difficulty_risk
            /\ out[i].difficulty_risk <= 100 * MaxScore(ConfiguredScale)
            /\ 100 * MinScore(ConfiguredScale) <= out[i].value_importance
            /\ out[i].value_importance <= 100 * MaxScore(ConfiguredScale)

(***************************************************************************)
(* C5.  For every finding scored by score_findings, 1.0 <= difficulty_risk *)
(* <= 5.0 and 1.0 <= value_importance <= 5.0, and est_hours is one of 0.5, *)
(* 2, 6, hence > 0.                                                        *)
(***************************************************************************)
C5_HeuristicRange ==
    pc = "scored" =>
        /\ Len(out) = Len(findings)
        /\ \A i \in 1..Len(out) :
              /\ 100 <= out[i].difficulty_risk /\ out[i].difficulty_risk <= 500
              /\ 100 <= out[i].value_importance /\ out[i].value_importance <= 500
              /\ out[i].est_hours \in {50, 200, 600}
              /\ out[i].est_hours > 0

C5_Witness ==
    /\ pc = "scored"
    /\ \E i \in 1..Len(out) :
          /\ findings[i].severity = CRITICAL /\ In(security, findings[i].tags)
          /\ out[i].difficulty_risk = 500 /\ out[i].value_importance = 500
    /\ \E i \in 1..Len(out) :
          /\ findings[i].severity = <<>> /\ findings[i].tags = <<>>
          /\ out[i].difficulty_risk = 156

(***************************************************************************)
(* C6.  _severity_weight is a case-insensitive lookup: CRITICAL -> 1.0,    *)
(* HIGH -> 0.85, MEDIUM -> 0.6, LOW -> 0.35, INFO -> 0.2 in any letter     *)
(* case; every other string, the empty one included, yields 0.2; the       *)
(* result is always within [0.2, 1.0].                                     *)
(***************************************************************************)
C6_SeverityWeight ==
    pc = "weighed" =>
        /\ sev \in CaseVariants(CRITICAL) => weight = 100
        /\ sev \in CaseVariants(HIGH) => weight = 85
        /\ sev \in CaseVariants(MEDIUM) => weight = 60
        /\ sev \in CaseVariants(LOW) => weight = 35
        /\ sev \in CaseVariants(INFO) => weight = 20
        /\ (\A w \in {CRITICAL, HIGH, MEDIUM, LOW, INFO} : sev \notin CaseVariants(w))
              => weight = 20
        /\ 20 <= weight /\ weight <= 100

C6_Witness ==
    /\ pc = "weighed"
    /\ sev = <<"h","I","g","h">>
    /\ weight = 85

(***************************************************************************)
(* C7.  In score_findings, with sw = weight(severity): difficulty_risk =   *)
(* 1.0 + 4.0*sw*(1.0 if "security" in tags else 0.7) and value_importance  *)
(* = 1.0 + 4.0*(sw if "security" or "perf" in tags else 0.5), each rounded *)
(* to 2 decimals; a HIGH finding tagged "security" gets 4.4, 4.4 and       *)
(* est_hours 6.                                                            *)
(***************************************************************************)
C7_HeuristicFormula ==
    pc = "scored" =>
        /\ Len(out) = Len(findings)
        /\ \A i \in 1..Len(out) :
              LET f  == findings[i]
                  sw == _severity_weight(f.severity)
              IN  /\ RoundedFrom(out[i].difficulty_risk,
                        10000 + 4 * sw * (IF In(security, f.tags) THEN 100 ELSE 70))
                  /\ RoundedFrom(out[i].value_importance,
                        10000 + 4 * 100 * (IF In(security, f.tags) \/ In(perf, f.tags)
                                           THEN sw ELSE 50))
                  /\ (f.severity = HIGH /\ In(security, f.tags)) =>
                        /\ out[i].difficulty_risk = 440
                        /\ out[i].value_importance = 440
                        /\ out[i].est_hours = 600

C7_Witness ==
    /\ pc = "scored"
    /\ \E i \in 1..Len(out) :
          /\ findings[i].severity = HIGH /\ findings[i].tags = <<security>>
          /\ out[i].difficulty_risk = 440 /\ out[i].value_importance = 440
          /\ out[i].est_hours = 600
    /\ \E i \in 1..Len(out) :
          /\ findings[i].severity = MEDIUM /\ findings[i].tags = <<perf>>
          /\ out[i].difficulty_risk = 268 /\ out[i].value_importance = 340

(***************************************************************************)
(* C8.  In score_findings, est_hours is 0.5 if value_importance < 2;       *)
(* otherwise 2 if difficulty_risk < 2.5; otherwise 6.  The value test      *)
(* comes first, and the scores compared are those before rounding.         *)
(***************************************************************************)
C8_HeuristicHours ==
    pc = "scored" =>
        /\ Len(out) = Len(findings)
        /\ \A i \in 1..Len(out) :
              LET f  == findings[i]
                  sw == _severity_weight(f.severity)
                  dr == 10000 + 4 * sw * (IF In(security, f.tags) THEN 100 ELSE 70)
                  vi == 10000 + 4 * 100 * (IF In(security, f.tags) \/ In(perf, f.tags)
                                           THEN sw ELSE 50)
              IN  /\ vi < 20000 => out[i].est_hours = 50
                  /\ (vi >= 20000 /\ dr < 25000) => out[i].est_hours = 200
                  /\ (vi >= 20000 /\ dr >= 25000) => out[i].est_hours = 600

\* both tests hold (value 1.8 < 2 and difficulty 1.56 < 2.5): the value test wins
C8_Witness ==
    /\ pc = "scored"
    /\ \E i \in 1..Len(out) :
          /\ findings[i].severity = INFO /\ findings[i].tags = <<perf>>
          /\ out[i].value_importance = 180 /\ out[i].difficulty_risk = 156
          /\ out[i].est_hours = 50
    /\ \E i \in 1..Len(out) :
          /\ findings[i].severity = LOW /\ findings[i].tags = <<>>
          /\ out[i].est_hours = 200

(***************************************************************************)
(* C9.  In score_findings_from_config the raw difficulty is the weighted   *)
(* sum of code_complexity = sw, coupling_blastradius = 1.0 if "security"   *)
(* in tags else 0.7, test_coverage_gap = 0.8 if "tests" in tags else 0.5,  *)
(* tooling_fixability = 0.3 if tool is flake8 or pylint else 0.7; the raw  *)
(* value is the weighted sum of security_severity = sw if "security" in    *)
(* tags else 0.2, reliability_perf = sw if "perf" in tags else 0.3,        *)
(* developer_experience = 0.6 if tags meet {tests, docs, typing} else 0.3, *)
(* user_value = 0.7 if tags meet {ux, api, i18n} else 0.2; a weight whose  *)
(* group or key is missing counts as 0.25; final = min_score + raw *       *)
(* (max_score - min_score), the scale defaulting to "1-5".  The item holds *)
(* the finals rounded to 2 decimals.                                       *)
(***************************************************************************)
C9_ConfigFormula ==
    pc = "scored_config" =>
        /\ Len(out) = Len(findings)
        /\ \A i \in 1..Len(out) :
              /\ RoundedFrom(out[i].difficulty_risk,
                             ClaimedFinal(ClaimedDifficultyRaw(findings[i])))
              /\ RoundedFrom(out[i].value_importance,
                             ClaimedFinal(ClaimedValueRaw(findings[i])))

\* a group with a single key, a linter finding, the default scale
C9_Witness ==
    /\ pc = "scored_config"
    /\ DOMAIN scoring_config = {"difficulty_weights"}
    /\ DOMAIN scoring_config["difficulty_weights"] = {"code_complexity"}
    /\ \E i \in 1..Len(out) :
          /\ findings[i] = Finding("flake8", CRITICAL, <<security>>)
          /\ out[i].difficulty_risk = 440
          /\ out[i].value_importance = 280

ScoredAlone(f) ==
    IF pc = "scored"
    THEN { score_findings(<<f>>)[1] }
    ELSE { score_findings_from_config(<<f>>, scoring_config, fp)[1] :
             fp \in FloatErrorMaps({f}, scoring_config) }

C11_ElementwiseMap ==
    pc \in {"scored", "scored_config"} =>
        /\ Len(out) = Len(findings)
        /\ \A i \in 1..Len(findings) :
              /\ out[i].finding = findings[i]
              /\ out[i] \in ScoredAlone(findings[i])
              /\ \A j \in 1..Len(findings) :
                    findings[i] = findings[j] => out[i] = out[j]

\* the same finding twice in a list, where the rounding of its
\* value_importance is decided by the float error
C11_Witness ==
    /\ pc = "scored_config"
    /\ Len(findings) = 2 /\ Len(out) = 2
    /\ findings[1] = findings[2]
    /\ Cardinality(FloatErrors(findings[1], scoring_config)) > 1
    /\ out[1] = out[2]

(***************************************************************************)
(* C12.  Severity monotonicity.  Of two findings tagged "security" that    *)
(* differ only in severity, CRITICAL against INFO, the CRITICAL one gets a *)
(* difficulty_risk and a value_importance at least those of the INFO one:  *)
(* in score_findings, and in score_findings_from_config when no weight is  *)
(* negative and the scale has min <= max.                                  *)
(***************************************************************************)
NonNegative(w) == \A k \in DOMAIN w : w[k] >= 0

MonotoneConfig ==
    /\ NonNegative(Get(scoring_config, "difficulty_weights", DefaultDifficultyWeights))
    /\ NonNegative(Get(scoring_config, "value_weights", DefaultValueWeights))
    /\ MinScore(ConfiguredScale) <= MaxScore(ConfiguredScale)

CriticalAgainstInfo(i, j) ==
    /\ findings[i].severity = CRITICAL
    /\ findings[j].severity = INFO
    /\ In(security, findings[i].tags)
    /\ findings[i].tool = findings[j].tool
    /\ findings[i].tags = findings[j].tags

C12_SeverityMonotone ==
    (pc = "scored" \/ (pc = "scored_config" /\ MonotoneConfig)) =>
        \A i \in 1..Len(findings) : \A j \in 1..Len(findings) :
            CriticalAgainstInfo(i, j) =>
                /\ out[i].difficulty_risk >= out[j].difficulty_risk
                /\ out[i].value_importance >= out[j].value_importance

C12_Witness ==
    /\ pc = "scored_config"
    /\ scoring_config = EmptyDict
    /\ Len(findings) = 2
    /\ CriticalAgainstInfo(2, 1)
    /\ out[2].difficulty_risk > out[1].difficulty_risk
    /\ out[2].value_importance > out[1].value_importance

(***************************************************************************)
(* C13.  Config-driven routing is case-insensitive.  to_phases_from_config *)
(* puts every item in the phase, and at the place of the phase's list,     *)
(* where it lands when all tags of the items and all include_tags of the   *)
(* configuration are rewritten in lower case.  Inputs that differ only in  *)
(* the letter case of tags have the same rewriting, so they route alike.   *)
(***************************************************************************)
LowerTags(tags) == [j \in 1..Len(tags) |-> [k \in 1..Len(tags[j]) |-> LowerChar(tags[j][k])]]

LowerItems(its) ==
    [i \in 1..Len(its) |->
        [its[i] EXCEPT !.finding = [@ EXCEPT !.tags = LowerTags(@)]]]

LowerConfig(cfg) ==
    [k \in 1..Len(cfg) |-> [cfg[k] EXCEPT !.include_tags = LowerTags(@)]]

C13_CaseInsensitive ==
    pc = "routed_config" =>
        to_phases_from_config(LowerItems(items), LowerConfig(phase_config))
            = [n \in DOMAIN phases |-> LowerItems(phases[n])]

\* an item tagged SECURITY routed to a phase with include_tags [security]
C13_Witness ==
    /\ pc = "routed_config"
    /\ Len(phase_config) >= 1
    /\ phase_config[1].name = "Phase A"
    /\ phase_config[1].include_tags = <<security>>
    /\ \E i \in 1..Len(items) :
          /\ items[i].finding.tags = <<upper(security)>>
          /\ In(items[i], phases["Phase A"])

(***************************************************************************)
(* C14.  Tag matching in score_findings_from_config ignores letter case:   *)
(* two findings of one list that differ only in the letter case of their   *)
(* tags get the same difficulty_risk, value_importance and est_hours.      *)
(***************************************************************************)
SameButTagCase(f1, f2) ==
    /\ f1.tool = f2.tool
    /\ f1.severity = f2.severity
    /\ LowerTags(f1.tags) = LowerTags(f2.tags)

C14_TagCaseIgnored ==
    pc = "scored_config" =>
        \A i \in 1..Len(findings) : \A j \in 1..Len(findings) :
            SameButTagCase(findings[i], findings[j]) =>
                /\ out[i].difficulty_risk = out[j].difficulty_risk
                /\ out[i].value_importance = out[j].value_importance
                /\ out[i].est_hours = out[j].est_hours

(***************************************************************************)
(* C15.  The heuristic scorer and the fixed-rule router compare tags as    *)
(* written.  score_findings scores a finding whose only tag is "SECURITY"  *)
(* or "Perf" with the factors of a finding without security or perf tag:   *)
(* difficulty_risk = 1 + 4 * weight * 0.7 and value_importance =           *)
(* 1 + 4 * 0.5 = 3.0.  to_phases routes an item whose only tag is          *)
(* "SECURITY", "PERF" or "Style" to "Phase 3 - Developer Experience".      *)
(***************************************************************************)
C15_ExactTagStrings ==
    /\ pc = "scored" =>
          \A i \in 1..Len(findings) :
              findings[i].tags \in { <<upper(security)>>, <<<<"P","e","r","f">>>> } =>
                  /\ RoundedFrom(out[i].difficulty_risk,
                                 10000 + 4 * 70 * Get(SeverityTable, findings[i].severity, 20))
                  /\ out[i].value_importance = 300
    /\ pc = "routed" =>
          \A i \in 1..Len(items) :
              items[i].finding.tags \in { <<upper(security)>>, <<upper(perf)>>,
                                          <<<<"S","t","y","l","e">>>> } =>
                  /\ In(items[i], phases[Phase3])
                  /\ \A n \in DOMAIN phases \ {Phase3} : ~In(items[i], phases[n])

\* a CRITICAL finding tagged SECURITY scored 3.8 / 3.0, as an untagged one
C15_Witness ==
    /\ pc = "scored"
    /\ Len(findings) = 1
    /\ findings[1] = Finding("bandit", CRITICAL, <<upper(security)>>)
    /\ out[1].difficulty_risk = 380
    /\ out[1].value_importance = 300

(***************************************************************************)
(* C16.  The keys of the result.  to_phases_from_config returns a dict     *)
(* whose keys are the phase names of the configuration and                 *)
(* "Uncategorized"; to_phases returns a dict whose keys are the five       *)
(* hardcoded phase names.  The keys do not depend on the items: they are   *)
(* there for an empty input list and for a phase that receives no item.    *)
(***************************************************************************)
C16_PhaseKeys ==
    /\ pc = "routed_config" =>
          DOMAIN phases =
              {phase_config[k].name : k \in 1..Len(phase_config)} \cup {"Uncategorized"}
    /\ pc = "routed" =>
          /\ DOMAIN phases = {Phase0, Phase1, Phase2, Phase3, Phase4}
          /\ Cardinality(DOMAIN phases) = 5

\* an empty input list under a configuration of two phases
C16_Witness ==
    /\ pc = "routed_config"
    /\ items = <<>>
    /\ Len(phase_config) = 2
    /\ phase_config[1].name = "Phase A" /\ phase_config[2].name = "Phase B"
    /\ phase_config[1].include_tags = <<>>
    /\ phases = [n \in {"Phase A", "Phase B", "Uncategorized"} |-> <<>>]

(***************************************************************************)
(* C17.  The trade-off classification is total and puts every item in      *)
(* exactly one of five buckets, with inclusive thresholds: Quick Win iff   *)
(* value >= 4.0 and difficulty <= 2.0; Major Project iff value >= 4.0 and  *)
(* difficulty >= 4.0; Nice to Have iff value <= 2.0 and difficulty <= 2.0; *)
(* Low Priority iff value <= 2.0 and difficulty >= 4.0; Balanced for every *)
(* other pair of scores.                                                   *)
(***************************************************************************)
TradeoffOf(rec) ==
    LET k == CHOOSE j \in 1..Len(rec) : rec[j].section = "Trade-offs" IN rec[k].body

C17_TradeoffBuckets ==
    pc = "recommended" =>
        LET bucket     == TradeoffOf(recommendation)
            value      == item.value_importance
            difficulty == item.difficulty_risk
            quick      == value >= 400 /\ difficulty <= 200
            major      == value >= 400 /\ difficulty >= 400
            nice       == value <= 200 /\ difficulty <= 200
            low        == value <= 200 /\ difficulty >= 400
        IN  /\ Cardinality({j \in 1..Len(recommendation) :
                                recommendation[j].section = "Trade-offs"}) = 1
            /\ bucket \in {"Quick Win", "Major Project", "Nice to Have",
                            "Low Priority", "Balanced Trade-off"}
            /\ bucket = "Quick Win" <=> quick
            /\ bucket = "Major Project" <=> major
            /\ bucket = "Nice to Have" <=> nice
            /\ bucket = "Low Priority" <=> low
            /\ bucket = "Balanced Trade-off" <=> ~(quick \/ major \/ nice \/ low)

\* an item on both thresholds, value 4.0 and difficulty 2.0: a Quick Win
C17_Witness ==
    /\ pc = "recommended"
    /\ item.value_importance = 400
    /\ item.difficulty_risk = 200
    /\ TradeoffOf(recommendation) = "Quick Win"

(***************************************************************************)
(* C18.  The References section of a recommendation is there iff a         *)
(* reference applies: OWASP and CWE for the tag "security", Web Vitals for *)
(* "perf", the testing blog and the test pyramid for "tests", PEP 8 for    *)
(* "style" when the file ends in ".py".  The sections come in the order    *)
(* header, issue summary, rationale, trade-offs, references (if any),      *)
(* actionable steps, estimated effort, separator.                          *)
(***************************************************************************)
ClaimedReferences ==
    LET f == item.finding
    IN  (IF In(security, f.tags) THEN {"OWASP Top 10", "CWE Top 25"} ELSE {})
        \cup (IF In(perf, f.tags) THEN {"Google Web Vitals"} ELSE {})
        \cup (IF In(tests, f.tags) THEN {"Google Testing Blog", "Test Pyramid"} ELSE {})
        \cup (IF In(style, f.tags) /\ Len(f.file) >= 3
                  /\ f.file[Len(f.file) - 2] = "." /\ f.file[Len(f.file) - 1] = "p"
                  /\ f.file[Len(f.file)] = "y"
               THEN {"PEP 8"} ELSE {})

SectionTitles(rec) == [k \in 1..Len(rec) |-> rec[k].section]

C18_ReferencesSection ==
    pc = "recommended" =>
        IF ClaimedReferences = {}
        THEN SectionTitles(recommendation)
                = <<"header", "Issue", "Rationale", "Trade-offs",
                    "Actionable Steps", "Estimated Effort", "separator">>
        ELSE /\ SectionTitles(recommendation)
                  = <<"header", "Issue", "Rationale", "Trade-offs", "References",
                      "Actionable Steps", "Estimated Effort", "separator">>
             /\ Range(recommendation[5].body) = ClaimedReferences
             /\ Len(recommendation[5].body) = Cardinality(ClaimedReferences)

\* a finding tagged only "style" in a file that is not a .py file
C18_Witness ==
    /\ pc = "recommended"
    /\ item.finding.tags = <<style>>
    /\ item.finding.file = <<"a", ".", "j", "s">>
    /\ Len(recommendation) = 7
    /\ \A k \in 1..7 : recommendation[k].section # "References"

(***************************************************************************)
(* The lines of a text, counted without cutting the text: line k runs from *)
(* after the (k-1)-th newline up to the k-th newline, which is not part of *)
(* it; characters after the last newline form a last line.                 *)
(***************************************************************************)
NewlinesOf(text) == { p \in 1..Len(text) : text[p] = NewLine }

NewlineAt(text, k) ==
    IF k = 0 THEN 0
    ELSE CHOOSE p \in NewlinesOf(text) :
            Cardinality({ q \in NewlinesOf(text) : q <= p }) = k

LineCount(text) ==
    Cardinality(NewlinesOf(text))
        + (IF text # <<>> /\ text[Len(text)] # NewLine THEN 1 ELSE 0)

LineOf(text, k) ==
    SubSeq(text, NewlineAt(text, k - 1) + 1,
           IF k <= Cardinality(NewlinesOf(text)) THEN NewlineAt(text, k) - 1 ELSE Len(text))

LinesOf(text, from, to) == [k \in 1..Max(to - from + 1, 0) |-> LineOf(text, from + k - 1)]

Readable(path) == path \in DOMAIN files /\ files[path].kind = "text"

(***************************************************************************)
(* C19.  For a readable file of N lines, 1 <= line_num <= N and            *)
(* context_lines c >= 0, extract_file_context returns as target_line the   *)
(* line line_num, as before the lines max(1, line_num - c) .. line_num - 1 *)
(* and as after the lines line_num + 1 .. min(N, line_num + c), in file    *)
(* order; the window is cut at the bounds of the file, so before is empty  *)
(* for line_num = 1 and after is empty for line_num = N.                   *)
(***************************************************************************)
C19_ContextWindow ==
    (/\ pc = "extracted"
     /\ Readable(file_path)
     /\ 1 <= line_num /\ line_num <= LineCount(files[file_path].text)
     /\ context_lines >= 0) =>
        LET text == files[file_path].text
            N    == LineCount(text)
        IN  /\ context.target_line = LineOf(text, line_num)
            /\ context.before
                  = LinesOf(text, Max(1, line_num - context_lines), line_num - 1)
            /\ context.after
                  = LinesOf(text, line_num + 1, Min(N, line_num + context_lines))
            /\ line_num = 1 => context.before = <<>>
            /\ line_num = N => context.after = <<>>

\* the first of three lines with two lines of context: nothing before, the
\* two other lines after
C19_Witness ==
    /\ pc = "extracted"
    /\ Readable(file_path)
    /\ files[file_path].text = <<"a", NewLine, NewLine, "b">>
    /\ line_num = 1 /\ context_lines = 2
    /\ context.target_line = <<"a">>
    /\ context.before = <<>>
    /\ context.after = << <<>>, <<"b">> >>

(***************************************************************************)
(* C20.  A bad source reference raises nothing.  For a missing file        *)
(* extract_file_context returns an empty target_line, empty before and     *)
(* after and a full_context that says "File not found"; for a line_num     *)
(* below 1 or beyond the last line of a readable file the same with a      *)
(* full_context that says "out of range".  generate_patch_prompt returns a *)
(* prompt for a finding whose file is missing, whenever its templates are  *)
(* there and reference only the arguments of the format call; the          *)
(* full_context of that prompt is the "File not found" text.               *)
(***************************************************************************)
FormatNames ==
    {"file", "line", "tool", "rule_id", "message", "severity",
     "context_before", "context_after", "full_context"}

WellFormed(d) ==
    \A key \in DOMAIN d \cap {"patch_template", "security_patch_template",
                                "performance_patch_template"} :
        \A k \in 1..Len(d[key]) : d[key][k] \in FormatNames

TemplatesFine ==
    IF templates # <<>> THEN WellFormed(templates[1])
    ELSE \/ TemplatesPath \notin DOMAIN files
         \/ /\ files[TemplatesPath].kind = "yaml"
            /\ WellFormed(files[TemplatesPath].value)

EmptyContext(why) ==
    /\ context.target_line = <<>>
    /\ context.before = <<>>
    /\ context.after = <<>>
    /\ context.full_context.error = why

C20_BadReference ==
    /\ (pc = "extracted" /\ file_path \notin DOMAIN files) =>
          EmptyContext("File not found")
    /\ (/\ pc = "extracted"
        /\ Readable(file_path)
        /\ (line_num < 1 \/ line_num > LineCount(files[file_path].text))) =>
          EmptyContext("out of range")
    /\ (/\ pc = "generated"
        /\ finding.file \notin DOMAIN files
        /\ TemplatesFine) =>
          /\ ~Raises(prompt)
          /\ \A k \in 1..Len(prompt.returned.body) :
                prompt.returned.body[k].field = "full_context" =>
                    prompt.returned.body[k].value.error = "File not found"

\* the prompt of a finding whose file is missing, from the built-in
\* default templates
C20_Witness ==
    /\ pc = "generated"
    /\ finding.file \notin DOMAIN files
    /\ templates = <<>>
    /\ TemplatesPath \notin DOMAIN files
    /\ ~Raises(prompt)
    /\ Len(prompt.returned.body) = 3

(***************************************************************************)
(* C21.  select_template_for_finding returns security_patch_template when  *)
(* a tag of the finding equals security, secrets or sast up to letter case *)
(* and the templates have that key; otherwise performance_patch_template   *)
(* when a tag equals perf or performance up to letter case and the         *)
(* templates have that key; otherwise patch_template.  So a finding tagged *)
(* security and perf gets the security template when there is one, and the *)
(* performance template when only that one is there.                       *)
(***************************************************************************)
TaggedAnyCase(f, words) ==
    \E j \in 1..Len(f.tags) : \E w \in words : EqualAnyCase(f.tags[j], w)

C21_TemplateChoice ==
    pc = "selected" =>
        LET tm   == templates[1]
            secu == TaggedAnyCase(finding, {security, secrets, sast})
                    /\ "security_patch_template" \in DOMAIN tm
            prf  == TaggedAnyCase(finding, {perf, performance})
                    /\ "performance_patch_template" \in DOMAIN tm
        IN  /\ secu => selected = tm["security_patch_template"]
            /\ ~secu /\ prf => selected = tm["performance_patch_template"]
            /\ ~secu /\ ~prf /\ "patch_template" \in DOMAIN tm
                  => selected = tm["patch_template"]

\* a finding tagged perf and security, templates with a performance template
\* and no security template: the performance template is selected
C21_Witness ==
    /\ pc = "selected"
    /\ finding.tags = <<perf, security>>
    /\ "performance_patch_template" \in DOMAIN templates[1]
    /\ "security_patch_template" \notin DOMAIN templates[1]
    /\ selected = templates[1]["performance_patch_template"]
    /\ selected # templates[1]["patch_template"]

(***************************************************************************)
(* C22.  generate_patch_prompt with templates at hand (given, or loaded    *)
(* without error): when the template selected for the finding references a *)
(* placeholder other than file, line, tool, rule_id, message, severity,    *)
(* context_before, context_after, full_context, the call raises, whatever  *)
(* the finding; when it references only those, the call returns a prompt   *)
(* with every placeholder of the template substituted, in order: the       *)
(* fields of the finding by their values, line by "N/A" when the finding   *)
(* has no line.                                                            *)
(***************************************************************************)
\* the templates the call works with, when it has any
TemplatesAtHand ==
    IF templates # <<>> THEN templates
    ELSE IF TemplatesPath \notin DOMAIN files THEN <<DefaultTemplates>>
    ELSE IF files[TemplatesPath].kind = "yaml" THEN <<files[TemplatesPath].value>>
    ELSE <<>>

\* the template the selection rule gives
ClaimedTemplate(f, tm) ==
    IF TaggedAnyCase(f, {security, secrets, sast})
       /\ "security_patch_template" \in DOMAIN tm
    THEN tm["security_patch_template"]
    ELSE IF TaggedAnyCase(f, {perf, performance})
            /\ "performance_patch_template" \in DOMAIN tm
    THEN tm["performance_patch_template"]
    ELSE IF "patch_template" \in DOMAIN tm THEN tm["patch_template"]
    ELSE <<"message">>

Substituted(f, part) ==
    CASE part.field = "file"     -> part.value = f.file
      [] part.field = "tool"     -> part.value = f.tool
      [] part.field = "rule_id"  -> part.value = f.rule_id
      [] part.field = "message"  -> part.value = f.message
      [] part.field = "severity" -> part.value = f.severity
      [] part.field = "line"     ->
            IF f.line = <<>> THEN part.value = "N/A"
            ELSE f.line[1] # 0 => part.value = f.line[1]
      [] OTHER -> part.field \in {"context_before", "context_after", "full_context"}

C23_NeverRaises ==
    pc = "loaded" =>
        /\ ~Raises(loaded)
        /\ TemplatesPath \notin DOMAIN files =>
              /\ DOMAIN loaded.returned = {"system_prompt", "patch_template", "context_lines"}
              /\ loaded.returned["context_lines"] = 5

(***************************************************************************)
(* C24.  run_full_pass runs its stages in the order config load, manifest, *)
(* static analysis, scoring, recommendations, phased plan, AI patches.     *)
(* With the engine configuration missing or malformed the run stops with   *)
(* the output directory not created and no file written.  A failed         *)
(* manifest or scoring stage is the last stage of the run.  After a failed *)
(* static analysis, recommendations or phased plan the next stage still    *)
(* runs, and the items scored are those of the findings of the tools that  *)
(* completed before the failure.  When every stage succeeds and the        *)
(* provider is "none", the files written are exactly 000, 010, 030, 040    *)
(* and 050.                                                                *)
(***************************************************************************)
StageOrder ==
    <<"config", "manifest", "static", "scoring", "recommendations", "plan", "ai">>

RunOver == pc \in {"returned", "finished", "raised"}

\* the result of the k-th tool when it and the tools before it completed
CompletedResult(k) ==
    IF \A j \in 1..k : ~Raises(tools[ToolOrder[j]])
    THEN tools[ToolOrder[k]].returned ELSE <<>>

CompletedFindings == CompletedResult(1) \o CompletedResult(2) \o CompletedResult(3)

Failed(name) == \E k \in 1..Len(executed) : executed[k] = Stage(name, FALSE)

Ran(name) == \E k \in 1..Len(executed) : executed[k].stage = name

C24_StagePolicy ==
    /\ Len(executed) <= Len(StageOrder)
    /\ \A k \in 1..Len(executed) : executed[k].stage = StageOrder[k]
    /\ (engine_config.kind # "yaml") =>
          /\ out_dir = <<>>
          /\ pc \in {"start", "returned"}
          /\ pc = "returned" => executed = <<Stage("config", FALSE)>>
    /\ \A k \in 1..Len(executed) :
          (executed[k].stage \in {"manifest", "scoring"} /\ ~executed[k].ok) =>
              k = Len(executed) /\ pc = "returned"
    /\ RunOver =>
          /\ Failed("static") => Ran("scoring")
          /\ Failed("recommendations") => Ran("plan")
          /\ Failed("plan") => pc \in {"finished", "raised"}
    /\ scored # <<>> =>
          /\ Len(scored[1]) = Len(CompletedFindings)
          /\ \A i \in 1..Len(scored[1]) : scored[1][i].finding = CompletedFindings[i]
    /\ (/\ pc = "finished"
        /\ \A k \in 1..Len(executed) : executed[k].ok
        /\ ProviderInUse(ai_override, engine_config.value) = "none") =>
          out_dir = <<{"000_manifest.json", "010_static_findings.json", "030_scores.json",
                       "040_recommendations.md", "050_phased_plan.md"}>>

\* bandit raises after flake8 returned a finding: the run goes on, scores
\* that one finding and writes every file but 010
C24_Witness ==
    /\ pc = "finished"
    /\ ~Raises(tools["flake8"])
    /\ Len(tools["flake8"].returned) = 1
    /\ Raises(tools["bandit"])
    /\ Failed("static")
    /\ scored # <<>>
    /\ Len(scored[1]) = 1
    /\ out_dir = <<{"000_manifest.json", "030_scores.json",
                    "040_recommendations.md", "050_phased_plan.md"}>>

(***************************************************************************)
(* C25.  propose_patches called with a non-empty list of prompts and a     *)
(* provider other than openai, anthropic and gemini raises ValueError to   *)
(* its caller, and no request is sent to a provider API.                   *)
(***************************************************************************)
C25_UnsupportedProvider ==
    (/\ pc \in {"returned", "raised"}
     /\ prompts # <<>>
     /\ provider \notin {"openai", "anthropic", "gemini"}) =>
        /\ pc = "raised"
        /\ patches.raised = "ValueError"
        /\ api_calls = 0

(***************************************************************************)
(* C26.  propose_patches makes at most 3 attempts at the whole batch.  A   *)
(* call that returns gives one output per prompt, in the order of the      *)
(* prompts, all received in the attempt that completed.  A call whose 3    *)
(* attempts failed raises, and gives no output.  At most                   *)
(* 3 * len(prompts) requests are sent.  With no prompt the call returns an *)
(* empty result at once, no request sent.                                  *)
(***************************************************************************)
C26_RetryProtocol ==
    /\ attempt_number \in 1..3
    /\ api_calls <= 3 * Len(prompts)
    /\ pc = "returned" =>
          /\ ~Raises(patches)
          /\ Len(patches.returned) = Len(prompts)
          /\ \A i \in 1..Len(prompts) :
                patches.returned[i] = Response(attempt_number, i, prompts[i])
    /\ pc = "raised" =>
          /\ attempt_number = 3
          /\ Raises(patches)
          /\ "returned" \notin DOMAIN patches
    /\ (prompts = <<>> /\ pc # "attempt") =>
          /\ pc = "returned"
          /\ patches = Return(<<>>)
          /\ attempt_number = 1
          /\ api_calls = 0

\* two prompts answered in the third attempt, after a first attempt that
\* failed at the second prompt and a second that failed at the first
C26_Witness ==
    /\ pc = "returned"
    /\ attempt_number = 3
    /\ Len(prompts) = 2
    /\ api_calls = 5
    /\ Len(patches.returned) = 2

(***************************************************************************)
(* C27.  The job is created with status "queued"; run_analysis first sets  *)
(* it to "running"; when the run is over the status is "completed" or      *)
(* "failed"; a status "completed" or "failed" is never changed again;      *)
(* "completed" is set only after 030_scores.json, 040_recommendations.md   *)
(* and 050_phased_plan.md are written, so a get_analysis_result request    *)
(* that sees "completed" finds the three files, at any interleaving with   *)
(* the background task, and a request that sees another status is answered *)
(* 400 without reading a file.                                             *)
(***************************************************************************)
JobLifecycle ==
    /\ pc = "queued" => job[1].status = "queued"
    /\ pc \notin {"request", "queued", "done"} => job[1].status = "running"
    /\ pc = "done" => job[1].status \in {"completed", "failed"}
    /\ (job # <<>> /\ job[1].status = "completed") =>
          {"030_scores.json", "040_recommendations.md", "050_phased_plan.md"}
              \subseteq output_dir
    /\ \A r \in responses :
          /\ r.observed = "completed" => r.code = 200 /\ r.read
          /\ r.observed \in {"queued", "running", "failed"} => r.code = 400 /\ ~r.read

StatusFinal ==
    (job # <<>> /\ job[1].status \in {"completed", "failed"}) =>
        job'[1].status = job[1].status

RECURSIVE EmbedsFrom(_, _, _, _)
EmbedsFrom(xs, i, ys, j) ==
    IF i > Len(xs) THEN TRUE
    ELSE IF j > Len(ys) THEN FALSE
    ELSE IF xs[i] = ys[j] THEN EmbedsFrom(xs, i + 1, ys, j + 1)
    ELSE EmbedsFrom(xs, i, ys, j + 1)

C28_OrderKept ==
    pc \in {"routed", "routed_config"} =>
        \A name \in DOMAIN phases : EmbedsFrom(phases[name], 1, items, 1)

\* two different items routed to the same phase by the configured router
C28_Witness ==
    /\ pc = "routed_config"
    /\ Len(items) = 2
    /\ items[1] # items[2]
    /\ \E name \in DOMAIN phases : phases[name] = items /\ name # Uncategorized

(***************************************************************************)
(* C29.  For items whose tags are all lower-case, to_phases(items) and     *)
(* to_phases_from_config(items, [Phase 1: [security], Phase 2: [perf],     *)
(* Phase 0: [style]]) give the same phase lists, element for element, with *)
(* "Phase 3 - Developer Experience" of the first standing for              *)
(* "Uncategorized" of the second.                                          *)
(***************************************************************************)
AllLowerCase(its) ==
    \A i \in 1..Len(its) : \A j \in 1..Len(its[i].finding.tags) :
        lower(its[i].finding.tags[j]) = its[i].finding.tags[j]

SamePhases(fixed, configured) ==
    /\ \A name \in {Phase0, Phase1, Phase2} : fixed[name] = configured[name]
    /\ fixed[Phase3] = configured[Uncategorized]

C29_FixedIsConfigured ==
    /\ (pc = "routed" /\ AllLowerCase(items)) =>
          SamePhases(phases, to_phases_from_config(items, FixedRulesConfig))
    /\ (pc = "routed_config" /\ phase_config = FixedRulesConfig /\ AllLowerCase(items)) =>
          SamePhases(to_phases(items), phases)

\* the configured router under the fixed rules: an item tagged style and
\* security in Phase 1, an item tagged docs in Uncategorized
C29_Witness ==
    /\ pc = "routed_config"
    /\ phase_config = FixedRulesConfig
    /\ Len(items) = 2
    /\ items[1].finding.tags = <<style, security>>
    /\ items[2].finding.tags = <<docs>>
    /\ phases[Phase1] = <<items[1]>>
    /\ phases[Uncategorized] = <<items[2]>>

(***************************************************************************)
(* C30.  For an item scored by score_findings (heuristic mode), whatever   *)
(* its severity label and tags, the trade-off text of the recommendation   *)
(* is never "Quick Win" and never "Low Priority": it is "Major Project",   *)
(* "Nice to Have" or "Balanced Trade-off".                                 *)
(***************************************************************************)
C30_NoQuickWin ==
    pc = "triaged" =>
        /\ TradeoffOf(recommendation) \notin {"Quick Win", "Low Priority"}
        /\ TradeoffOf(recommendation)
              \in {"Major Project", "Nice to Have", "Balanced Trade-off"}
        /\ ~(item.value_importance >= 400 /\ item.difficulty_risk <= 200)
        /\ ~(item.value_importance <= 200 /\ item.difficulty_risk >= 400)

\* a CRITICAL finding tagged perf: value 5.0, difficulty 3.8, the nearest
\* the heuristic comes to a Quick Win, classified Balanced
C30_Witness ==
    /\ pc = "triaged"
    /\ item.finding.severity = CRITICAL
    /\ item.finding.tags = <<perf>>
    /\ item.value_importance = 500
    /\ item.difficulty_risk = 380
    /\ TradeoffOf(recommendation) = "Balanced Trade-off"

====
